---- MODULE Spec2Model ----
(***************************************************************************)
(* Lint rules of ConorRoberts/utils as state machines driven by the host   *)
(* linter's pre-order enter / post-order exit traversal of an AST.         *)
(*                                                                         *)
(*   SpecNest  no-nested-conditionals  (oxlint-plugins/no-nested-          *)
(*             conditionals.js)                                            *)
(***************************************************************************)
EXTENDS Integers, Sequences, FiniteSets, TLC

(***************************************************************************)
(* Bounds of the model.                                                    *)
(***************************************************************************)
\* longest chain of open AST nodes (root first) the host descends to
NestMaxPath == 6
\* most statements in a file handed to no-inline-components
IcMaxStmts == 3
\* longest chain of open AST nodes handed to no-top-level-let
MtMaxPath == 5
\* most nodes above the innermost one in the target of a mutation
MtMaxChain == 2

\* most statements of a file linted by no-nested-pure-functions, besides the
\* declaration of outerVar
PfMaxStmts == 1
\* most statements in a file handed to jsx-component-pascal-case
JcMaxStmts == 1
\* most statements in a file handed to no-component-date-instantiation
NdMaxStmts == 1
\* most calls of a component function React makes in one run
HkMaxRenders == 3

(***************************************************************************)
(* Program constants.                                                      *)
(***************************************************************************)
DEFAULT_MAX_DEPTH == 2

VARIABLES
  ncPath,       \* no-nested-conditionals: the AST nodes currently open, root
                \* first; the parent of ncPath[i] is ncPath[i-1]
  ncOptions,    \* context.options[0] handed to createOnce
  scopeStack,   \* createOnce's scopeStack: frames [depth, increments]
  ncReported,   \* the context.report calls made by the latest callback
  ncStray,      \* the latest callback, when the host made it for no open
                \* node: its name and the scope stack it found
  icTree,       \* no-inline-components: the file being linted, as a table of
                \* AST nodes in source order (node 1 is the Program)
  icAgenda,     \* the callbacks the host still has to make for icTree
  icFrames,     \* every FunctionContext allocated so far; .parent refers to
                \* another one by position (0 is null)
  functionStack,\* no-inline-components: functionStack of createOnce()
  icReports,    \* every context.report call made so far, in order
  mtPath,       \* no-top-level-let: the AST nodes currently open, root first
  topLevelMutableBindings, \* no-top-level-let: the Set of createOnce()
  mtReported,   \* the context.report calls made by the latest callback
  pfTree,       \* no-nested-pure-functions: the file being linted, as a table
                \* of AST nodes in source order (node 1 is the Program)
  pfAgenda,     \* the VariableDeclarator callbacks the host still has to make
  pfReports,    \* every context.report call made so far, in order
  jcTree,       \* jsx-component-pascal-case: the file being linted, as a
                \* table of AST nodes in source order (node 1 is the Program)
  jcAgenda,     \* the callbacks the host still has to make for jcTree
  jcFunctionStack, \* jsx-component-pascal-case: functionStack of createOnce()
  jcReports,    \* every context.report call made so far, in order
  ndTree,       \* no-component-date-instantiation: the file being linted, as
                \* a table of AST nodes in source order (node 1 is the Program)
  ndAgenda,     \* the callbacks the host still has to make for ndTree
  ndFunctionStack, \* no-component-date-instantiation: functionStack of
                \* createOnce()
  ndReports,    \* every context.report call made so far, in order
  hkHook,       \* react hooks: the hook the component under test calls
  hkCells,      \* the hook cells React keeps for the component instance:
                \* the refs, the memoized callback, the effect's last deps
  hkPending,    \* the effect React has scheduled and not yet run, as the
                \* props its closure captured; <<>> when there is none
  hkRenders,    \* number of times the component function has been called
  hkTrace,      \* what the instance has done so far: its renders and effect
                \* runs, each with the callbacks invoked during it
  ceArgs,       \* createEnv: the arguments of the call, <<>> before it
  ceLogs,       \* the console.error calls made so far, each a message
  ceExits,      \* the process.exit calls made so far, each an exit code
  ceResult,     \* what createEnv returned: <<>> when it has not returned
  rnPath,       \* no-react-namespace: the types of the ancestors of the
                \* member expression, root first; the last one is its parent
  rnNode,       \* the member expression handed to the MemberExpression
                \* callback
  rnCursor,     \* checkParent's `current`, as an index of rnPath (0: null)
  rnVisited,    \* the indices checkParent has been called with, in order
  rnPhase,      \* "called", "walking" (inside isTypeContext) or "done"
  rnReports     \* every context.report call made so far, in order

ncVars == <<ncPath, ncOptions, scopeStack, ncReported, ncStray>>
icVars == <<icTree, icAgenda, icFrames, functionStack, icReports>>
mtVars == <<mtPath, topLevelMutableBindings, mtReported>>
pfVars == <<pfTree, pfAgenda, pfReports>>
jcVars == <<jcTree, jcAgenda, jcFunctionStack, jcReports>>
ndVars == <<ndTree, ndAgenda, ndFunctionStack, ndReports>>
hkVars == <<hkHook, hkCells, hkPending, hkRenders, hkTrace>>
ceVars == <<ceArgs, ceLogs, ceExits, ceResult>>
rnVars == <<rnPath, rnNode, rnCursor, rnVisited, rnPhase, rnReports>>

vars == <<ncVars, icVars, mtVars, pfVars, jcVars, ndVars, hkVars, ceVars, rnVars>>

\* the variables of the rules other than the one a specification loads
otherThanNest == <<icVars, mtVars, pfVars, jcVars, ndVars, hkVars, ceVars, rnVars>>
otherThanJsx == <<ncVars, mtVars, pfVars, jcVars, ndVars, hkVars, ceVars, rnVars>>
otherThanMut == <<ncVars, icVars, pfVars, jcVars, ndVars, hkVars, ceVars, rnVars>>
otherThanPure == <<ncVars, icVars, mtVars, jcVars, ndVars, hkVars, ceVars, rnVars>>
otherThanCase == <<ncVars, icVars, mtVars, pfVars, ndVars, hkVars, ceVars, rnVars>>
otherThanDate == <<ncVars, icVars, mtVars, pfVars, jcVars, hkVars, ceVars, rnVars>>
otherThanHooks == <<ncVars, icVars, mtVars, pfVars, jcVars, ndVars, ceVars, rnVars>>
otherThanEnv == <<ncVars, icVars, mtVars, pfVars, jcVars, ndVars, hkVars, rnVars>>
otherThanReact == <<ncVars, icVars, mtVars, pfVars, jcVars, ndVars, hkVars, ceVars>>

\* a rule that is not loaded keeps its state as constructed
NcNoStray == [callback |-> "", before |-> <<>>]

IdleNest ==
  /\ ncPath = <<>>
  /\ ncStray = NcNoStray
  /\ ncOptions = [given |-> FALSE, isNumber |-> FALSE, value |-> 0]
  /\ scopeStack = <<>>
  /\ ncReported = <<>>

IdleJsx ==
  /\ icTree = <<>>
  /\ icAgenda = <<>>
  /\ icFrames = <<>>
  /\ functionStack = <<>>
  /\ icReports = <<>>

IdleMut ==
  /\ mtPath = <<>>
  /\ topLevelMutableBindings = {}
  /\ mtReported = <<>>

IdlePure ==
  /\ pfTree = <<>>
  /\ pfAgenda = <<>>
  /\ pfReports = <<>>

IdleCase ==
  /\ jcTree = <<>>
  /\ jcAgenda = <<>>
  /\ jcFunctionStack = <<>>
  /\ jcReports = <<>>

IdleDate ==
  /\ ndTree = <<>>
  /\ ndAgenda = <<>>
  /\ ndFunctionStack = <<>>
  /\ ndReports = <<>>

IdleHooks ==
  /\ hkHook = ""
  /\ hkCells = <<>>
  /\ hkPending = <<>>
  /\ hkRenders = 0
  /\ hkTrace = <<>>

IdleEnv ==
  /\ ceArgs = <<>>
  /\ ceLogs = <<>>
  /\ ceExits = <<>>
  /\ ceResult = <<>>

IdleReact ==
  /\ rnPath = <<>>
  /\ rnNode = <<>>
  /\ rnCursor = 0
  /\ rnVisited = <<>>
  /\ rnPhase = "done"
  /\ rnReports = <<>>

Last(s) == s[Len(s)]
Front(s) == SubSeq(s, 1, Len(s) - 1)

(***************************************************************************)
(* The AST as the host hands it to no-nested-conditionals: which children  *)
(* a node of each type has.  A slot is a property of the node; slots are   *)
(* visited in rank order, a multi slot (a statement list) any number of    *)
(* times.                                                                  *)
(***************************************************************************)
NcStatements ==
  {"FunctionDeclaration", "BlockStatement", "IfStatement", "SwitchStatement",
   "WhileStatement", "ExpressionStatement"}

NcExpressions ==
  {"ConditionalExpression", "ArrowFunctionExpression", "FunctionExpression"}

NcSlot(key, rank, multi, types) ==
  [key |-> key, rank |-> rank, multi |-> multi, types |-> types]

NcSlots(type) ==
  CASE type = "Program" -> {NcSlot("body", 1, TRUE, NcStatements)}
    [] type \in {"FunctionDeclaration", "FunctionExpression"} ->
         {NcSlot("body", 1, FALSE, {"BlockStatement"})}
    [] type = "ArrowFunctionExpression" ->
         {NcSlot("body", 1, FALSE, {"BlockStatement", "ConditionalExpression"})}
    [] type = "BlockStatement" -> {NcSlot("body", 1, TRUE, NcStatements)}
    [] type = "IfStatement" ->
         {NcSlot("test", 1, FALSE, NcExpressions),
          NcSlot("consequent", 2, FALSE, NcStatements \ {"FunctionDeclaration"}),
          NcSlot("alternate", 3, FALSE, NcStatements \ {"FunctionDeclaration"})}
    [] type = "SwitchStatement" ->
         {NcSlot("discriminant", 1, FALSE, NcExpressions),
          NcSlot("cases", 2, TRUE, {"SwitchCase"})}
    [] type = "SwitchCase" -> {NcSlot("consequent", 1, TRUE, NcStatements)}
    [] type = "WhileStatement" ->
         {NcSlot("test", 1, FALSE, NcExpressions),
          NcSlot("body", 2, FALSE, NcStatements \ {"FunctionDeclaration"})}
    [] type = "ExpressionStatement" ->
         {NcSlot("expression", 1, FALSE, NcExpressions)}
    [] type = "ConditionalExpression" ->
         {NcSlot("test", 1, FALSE, NcExpressions),
          NcSlot("consequent", 2, FALSE, NcExpressions),
          NcSlot("alternate", 3, FALSE, NcExpressions)}
    [] OTHER -> {}

\* an open node: its type, the property of its parent that holds it, the
\* rank of the last slot the traversal has entered, the number of
\* diagnostics reported on it so far, and the depth counter of the innermost
\* scope frame as its enter callback found it
NcNode(type, key, diags) ==
  [type |-> type, key |-> key, rank |-> 0, diags |-> diags,
   before |-> IF scopeStack = <<>> THEN 0 ELSE Last(scopeStack).depth]

\* the host may enter a child of `type' in slot `key' of the innermost open node
NcCanEnter(type, key) ==
  /\ ncPath # <<>>
  /\ Len(ncPath) < NestMaxPath
  /\ \E s \in NcSlots(Last(ncPath).type) :
       /\ s.key = key
       /\ type \in s.types
       /\ \/ s.rank > Last(ncPath).rank
          \/ s.rank = Last(ncPath).rank /\ s.multi

NcSlotRank(ptype, key) ==
  (CHOOSE s \in NcSlots(ptype) : s.key = key).rank

\* the chain of open nodes after the host has entered the child
NcPushed(type, key, diags) ==
  Append([ncPath EXCEPT ![Len(ncPath)].rank = NcSlotRank(Last(ncPath).type, key)],
         NcNode(type, key, diags))

(***************************************************************************)
(* no-nested-conditionals.js                                               *)
(***************************************************************************)
\* a node is path[i]; node.parent is path[i-1], absent for the root
NC_isNode(path, i) == i >= 1 /\ i <= Len(path)

NC_isFunctionLike(path, i) ==
  path[i].type \in {"FunctionDeclaration", "FunctionExpression", "ArrowFunctionExpression"}

\* mutant of isStandaloneBlock: every block opens a scope
isStandaloneBlock_AnyBlock(path, i) == path[i].type = "BlockStatement"

isStandaloneBlock(path, i) ==
  IF path[i].type # "BlockStatement" THEN FALSE
  ELSE IF ~NC_isNode(path, i - 1) THEN FALSE
  ELSE path[i - 1].type = "Program" \/ path[i - 1].type = "BlockStatement"

\* mutant of isElseIf: an else-if is counted like any other if
isElseIf_Never(path, i) == FALSE

isElseIf(path, i) ==
  IF path[i].type # "IfStatement" THEN FALSE
  ELSE IF ~NC_isNode(path, i - 1) \/ path[i - 1].type # "IfStatement" THEN FALSE
  ELSE path[i].key = "alternate"

\* context.options?.[0]?.maxDepth when it is a number, else the default
NcOptionValues ==
  {[given |-> FALSE, isNumber |-> FALSE, value |-> 0],
   [given |-> TRUE, isNumber |-> FALSE, value |-> 0],
   [given |-> TRUE, isNumber |-> TRUE, value |-> 1],
   [given |-> TRUE, isNumber |-> TRUE, value |-> 3]}

\* mutant of maxDepth: the configured value is ignored
maxDepth_Default == DEFAULT_MAX_DEPTH

maxDepth ==
  IF ncOptions.given /\ ncOptions.isNumber THEN ncOptions.value
  ELSE DEFAULT_MAX_DEPTH

NcMessage(md) == [text |-> "Avoid nesting conditionals more than", maxDepth |-> md]

enterScope(stack) == Append(stack, [depth |-> 0, increments |-> <<>>])

\* mutant of exitScope: the frame is left on the stack
exitScope_Keeps(stack) == stack

exitScope(stack) == IF stack = <<>> THEN stack ELSE Front(stack)

\* the increment enterConditional gives the node path[i]
NcIncrement(path, i) == IF isElseIf(path, i) THEN 0 ELSE 1

\* mutant of enterConditional: the increment is added to the depth of every
\* frame of the stack
enterConditional_AllFrames(stack, path, i, md) ==
  IF stack = <<>> THEN [stack |-> stack, reports |-> <<>>]
  ELSE LET scope == Last(stack)
           increment == NcIncrement(path, i)
           nextDepth == scope.depth + increment
       IN [stack |-> [k \in 1..Len(stack) |->
                        IF k = Len(stack)
                        THEN [depth |-> nextDepth,
                              increments |-> Append(scope.increments, increment)]
                        ELSE [stack[k] EXCEPT !.depth = @ + increment]],
           reports |-> IF nextDepth > md
                       THEN <<[node |-> i, message |-> NcMessage(md)]>>
                       ELSE <<>>]

\* mutant of enterConditional: reports on reaching the threshold
enterConditional_AtThreshold(stack, path, i, md) ==
  IF stack = <<>> THEN [stack |-> stack, reports |-> <<>>]
  ELSE LET scope == Last(stack)
           increment == NcIncrement(path, i)
           nextDepth == scope.depth + increment
       IN [stack |-> [stack EXCEPT ![Len(stack)] =
                        [depth |-> nextDepth,
                         increments |-> Append(scope.increments, increment)]],
           reports |-> IF nextDepth >= md
                       THEN <<[node |-> i, message |-> NcMessage(md)]>>
                       ELSE <<>>]

\* enterConditional(node), node = path[i]: the scope stack and the reports
enterConditional(stack, path, i, md) ==
  IF stack = <<>> THEN [stack |-> stack, reports |-> <<>>]
  ELSE LET scope == Last(stack)
           increment == NcIncrement(path, i)
           nextDepth == scope.depth + increment
       IN [stack |-> [stack EXCEPT ![Len(stack)] =
                        [depth |-> nextDepth,
                         increments |-> Append(scope.increments, increment)]],
           reports |-> IF nextDepth > md
                       THEN <<[node |-> i, message |-> NcMessage(md)]>>
                       ELSE <<>>]

\* mutant of exitConditional: takes an increment off the depth even when
\* the frame has none left
exitConditional_Unguarded(stack) ==
  IF stack = <<>> THEN stack
  ELSE LET scope == Last(stack) IN
       IF scope.increments = <<>>
       THEN [stack EXCEPT ![Len(stack)] = [depth |-> scope.depth - 1, increments |-> <<>>]]
       ELSE [stack EXCEPT ![Len(stack)] =
               [depth |-> scope.depth - Last(scope.increments),
                increments |-> Front(scope.increments)]]

\* mutant of exitConditional: the increment is popped but not subtracted
exitConditional_KeepsDepth(stack) ==
  IF stack = <<>> THEN stack
  ELSE LET scope == Last(stack) IN
       IF scope.increments = <<>> THEN stack
       ELSE [stack EXCEPT ![Len(stack)] =
               [depth |-> scope.depth, increments |-> Front(scope.increments)]]

exitConditional(stack) ==
  IF stack = <<>> THEN stack
  ELSE LET scope == Last(stack) IN
       IF scope.increments = <<>> THEN stack
       ELSE [stack EXCEPT ![Len(stack)] =
               [depth |-> scope.depth - Last(scope.increments),
                increments |-> Front(scope.increments)]]

(***************************************************************************)
(* The visitor: one action per registered callback.  The host enters a     *)
(* node (the callback sees it with its parent chain) or exits the          *)
(* innermost open node.                                                    *)
(***************************************************************************)
NC_Program ==
  /\ ncPath = <<>>
  /\ ncPath' = <<NcNode("Program", "", 0)>>
  /\ scopeStack' = enterScope(scopeStack)
  /\ ncReported' = <<>>
  /\ ncStray' = NcNoStray
  /\ UNCHANGED <<ncOptions, otherThanNest>>

NC_Program_exit ==
  /\ ncPath # <<>> /\ Last(ncPath).type = "Program"
  /\ ncPath' = Front(ncPath)
  /\ scopeStack' = exitScope(scopeStack)
  /\ ncReported' = <<>>
  /\ ncStray' = NcNoStray
  /\ UNCHANGED <<ncOptions, otherThanNest>>

\* FunctionDeclaration, FunctionExpression, ArrowFunctionExpression
NcEnterFunction(type) ==
  \E key \in {"body", "expression", "test", "consequent", "alternate", "discriminant"} :
    /\ NcCanEnter(type, key)
    /\ ncPath' = NcPushed(type, key, 0)
    /\ scopeStack' = IF NC_isFunctionLike(ncPath', Len(ncPath'))
                     THEN enterScope(scopeStack) ELSE scopeStack
    /\ ncReported' = <<>>
    /\ ncStray' = NcNoStray
    /\ UNCHANGED <<ncOptions, otherThanNest>>

NcExitFunction(type) ==
  /\ ncPath # <<>> /\ Last(ncPath).type = type
  /\ ncPath' = Front(ncPath)
  /\ scopeStack' = exitScope(scopeStack)
  /\ ncReported' = <<>>
  /\ ncStray' = NcNoStray
  /\ UNCHANGED <<ncOptions, otherThanNest>>

NC_FunctionDeclaration == NcEnterFunction("FunctionDeclaration")
NC_FunctionDeclaration_exit == NcExitFunction("FunctionDeclaration")
NC_FunctionExpression == NcEnterFunction("FunctionExpression")
NC_FunctionExpression_exit == NcExitFunction("FunctionExpression")
NC_ArrowFunctionExpression == NcEnterFunction("ArrowFunctionExpression")
NC_ArrowFunctionExpression_exit == NcExitFunction("ArrowFunctionExpression")

NC_BlockStatement ==
  \E key \in {"body", "consequent", "alternate"} :
    /\ NcCanEnter("BlockStatement", key)
    /\ ncPath' = NcPushed("BlockStatement", key, 0)
    /\ scopeStack' = IF isStandaloneBlock(ncPath', Len(ncPath'))
                     THEN enterScope(scopeStack) ELSE scopeStack
    /\ ncReported' = <<>>
    /\ ncStray' = NcNoStray
    /\ UNCHANGED <<ncOptions, otherThanNest>>

NC_BlockStatement_exit ==
  /\ ncPath # <<>> /\ Last(ncPath).type = "BlockStatement"
  /\ ncPath' = Front(ncPath)
  /\ scopeStack' = IF isStandaloneBlock(ncPath, Len(ncPath))
                   THEN exitScope(scopeStack) ELSE scopeStack
  /\ ncReported' = <<>>
  /\ ncStray' = NcNoStray
  /\ UNCHANGED <<ncOptions, otherThanNest>>

\* IfStatement, ConditionalExpression, SwitchStatement
NcEnterConditionalNode(type) ==
  \E key \in {"body", "expression", "test", "consequent", "alternate", "discriminant"} :
    /\ NcCanEnter(type, key)
    /\ LET entered == NcPushed(type, key, 0)
           r == enterConditional(scopeStack, entered, Len(entered), maxDepth)
       IN /\ ncPath' = NcPushed(type, key, Len(r.reports))
          /\ scopeStack' = r.stack
          /\ ncReported' = r.reports
    /\ ncStray' = NcNoStray
    /\ UNCHANGED <<ncOptions, otherThanNest>>

NcExitConditionalNode(type) ==
  /\ ncPath # <<>> /\ Last(ncPath).type = type
  /\ ncPath' = Front(ncPath)
  /\ scopeStack' = exitConditional(scopeStack)
  /\ ncReported' = <<>>
  /\ ncStray' = NcNoStray
  /\ UNCHANGED <<ncOptions, otherThanNest>>

NC_IfStatement == NcEnterConditionalNode("IfStatement")
NC_IfStatement_exit == NcExitConditionalNode("IfStatement")
NC_ConditionalExpression == NcEnterConditionalNode("ConditionalExpression")
NC_ConditionalExpression_exit == NcExitConditionalNode("ConditionalExpression")
NC_SwitchStatement == NcEnterConditionalNode("SwitchStatement")
NC_SwitchStatement_exit == NcExitConditionalNode("SwitchStatement")

\* nodes the rule registers no callback for: the host walks through them
NcUnregistered == {"WhileStatement", "ExpressionStatement", "SwitchCase"}

NC_HostEnterOther ==
  \E type \in NcUnregistered, key \in {"body", "consequent", "alternate", "cases"} :
    /\ NcCanEnter(type, key)
    /\ ncPath' = NcPushed(type, key, 0)
    /\ ncReported' = <<>>
    /\ ncStray' = NcNoStray
    /\ UNCHANGED <<scopeStack, ncOptions, otherThanNest>>

NC_HostExitOther ==
  /\ ncPath # <<>> /\ Last(ncPath).type \in NcUnregistered
  /\ ncPath' = Front(ncPath)
  /\ ncReported' = <<>>
  /\ ncStray' = NcNoStray
  /\ UNCHANGED <<scopeStack, ncOptions, otherThanNest>>

\* the host makes an exit callback that no open node calls for, at a moment
\* the rule has no frame for it: the scope stack is empty or, for the exit of
\* a conditional, the innermost frame has no increment left.  The exits of
\* Program, functions and standalone blocks call exitScope, those of if,
\* ternary and switch call exitConditional.
NC_StrayExit ==
  \E handler \in {"exitScope", "exitConditional"} :
    /\ \/ scopeStack = <<>>
       \/ /\ handler = "exitConditional"
          /\ scopeStack # <<>>
          /\ Last(scopeStack).increments = <<>>
    /\ scopeStack' = IF handler = "exitConditional" THEN exitConditional(scopeStack)
                     ELSE exitScope(scopeStack)
    /\ ncStray' = [callback |-> handler, before |-> scopeStack]
    /\ ncReported' = <<>>
    /\ UNCHANGED <<ncPath, ncOptions, otherThanNest>>

InitNest ==
  /\ ncPath = <<>>
  /\ ncStray = NcNoStray
  /\ ncOptions \in NcOptionValues
  /\ scopeStack = <<>>
  /\ ncReported = <<>>
  /\ IdleJsx
  /\ IdleMut
  /\ IdlePure
  /\ IdleCase
  /\ IdleDate
  /\ IdleHooks
  /\ IdleEnv
  /\ IdleReact

NextNest ==
  \/ NC_Program
  \/ NC_Program_exit
  \/ NC_FunctionDeclaration
  \/ NC_FunctionDeclaration_exit
  \/ NC_FunctionExpression
  \/ NC_FunctionExpression_exit
  \/ NC_ArrowFunctionExpression
  \/ NC_ArrowFunctionExpression_exit
  \/ NC_BlockStatement
  \/ NC_BlockStatement_exit
  \/ NC_IfStatement
  \/ NC_IfStatement_exit
  \/ NC_ConditionalExpression
  \/ NC_ConditionalExpression_exit
  \/ NC_SwitchStatement
  \/ NC_SwitchStatement_exit
  \/ NC_HostEnterOther
  \/ NC_HostExitOther
  \/ NC_StrayExit

SpecNest == InitNest /\ [][NextNest]_vars

(***************************************************************************)
(* Properties of no-nested-conditionals.                                   *)
(***************************************************************************)
NcConditionalTypes == {"IfStatement", "ConditionalExpression", "SwitchStatement"}

NcIsConditional(i) == ncPath[i].type \in NcConditionalTypes

\* a node that opens a scope: the program, a function, a standalone block
NcOpensScope(i) ==
  \/ ncPath[i].type = "Program"
  \/ ncPath[i].type \in {"FunctionDeclaration", "FunctionExpression", "ArrowFunctionExpression"}
  \/ /\ ncPath[i].type = "BlockStatement"
     /\ i > 1
     /\ ncPath[i - 1].type \in {"Program", "BlockStatement"}

\* the innermost scope-opening node at or above node i (0 if there is none)
NcScopeStart(i) ==
  IF \E k \in 1..i : NcOpensScope(k)
  THEN CHOOSE k \in 1..i : NcOpensScope(k) /\ \A m \in (k + 1)..i : ~NcOpensScope(m)
  ELSE 0

\* an if that is the alternate of its parent if
NcIsAlternateIf(i) ==
  /\ ncPath[i].type = "IfStatement"
  /\ i > 1
  /\ ncPath[i - 1].type = "IfStatement"
  /\ ncPath[i].key = "alternate"

\* the conditionals from node `from' to node `to' that are not else-ifs
NcCountedBetween(from, to) ==
  Cardinality({j \in from..to : NcIsConditional(j) /\ ~NcIsAlternateIf(j)})

\* the nesting level of node i within its scope frame
NcLevel(i) == NcCountedBetween(NcScopeStart(i) + 1, i)

\* C1: with the default threshold 2, a conditional that is not an else-if has
\* exactly one diagnostic, on its own node, if it was entered at nesting level
\* 3 or deeper of its scope and none at level 1 or 2; a chain of N strictly
\* nested ifs that starts at level 1 carries max(0, N-2) diagnostics.
NestingDepthBoundary ==
  maxDepth = 2 =>
    /\ \A i \in 1..Len(ncPath) :
         NcIsConditional(i) /\ ~NcIsAlternateIf(i) =>
           ncPath[i].diags = (IF NcLevel(i) >= 3 THEN 1 ELSE 0)
    /\ \A r \in 1..Len(ncReported) :
         /\ Len(ncReported) = 1
         /\ ncReported[r].node = Len(ncPath)
         /\ NcIsConditional(Len(ncPath))
         /\ Last(ncPath).diags = 1
    /\ \A i \in 1..Len(ncPath) : \A j \in i..Len(ncPath) :
         /\ NcLevel(i) = 1 /\ ncPath[i].type = "IfStatement" /\ ~NcIsAlternateIf(i)
         /\ \A k \in (i + 1)..j :
              /\ ncPath[k].type = "IfStatement"
              /\ ncPath[k].key = "consequent"
         => LET n == j - i + 1
                reported == Cardinality({k \in i..j : ncPath[k].diags = 1})
            IN reported = (IF n > 2 THEN n - 2 ELSE 0)

\* C1 witness: an if at level 3 of its scope has just been reported
NestingDepthBoundaryWitness ==
  /\ maxDepth = 2
  /\ ~ncOptions.given
  /\ ncPath # <<>>
  /\ Last(ncPath).type = "IfStatement"
  /\ NcLevel(Len(ncPath)) = 3
  /\ Len(ncReported) = 1
  /\ Last(ncPath).diags = 1

\* head of the else-if chain node i belongs to
RECURSIVE NcChainHead(_)
NcChainHead(i) == IF NcIsAlternateIf(i) THEN NcChainHead(i - 1) ELSE i

\* C2: an else-if is reported exactly when the first if of its chain is (the
\* same count as for flat siblings at the level of the first if), and while it
\* is the innermost open node the depth of the scope is the level of that
\* first if: entering it has not increased the depth.
ElseIfExemption ==
  /\ \A i \in 1..Len(ncPath) :
       NcIsAlternateIf(i) => ncPath[i].diags = ncPath[NcChainHead(i)].diags
  /\ /\ ncPath # <<>>
     /\ NcIsAlternateIf(Len(ncPath))
     /\ scopeStack # <<>>
     => /\ Last(scopeStack).depth = NcLevel(NcChainHead(Len(ncPath)))
        /\ Last(Last(scopeStack).increments) = 0

\* C2 witness: an else-if whose first if sits at the threshold is entered
\* without a diagnostic, and the next if inside it is entered
NcElseIfWitness ==
  /\ Len(ncPath) >= 3
  /\ NcIsAlternateIf(Len(ncPath) - 1)
  /\ NcLevel(Len(ncPath) - 1) = maxDepth
  /\ ncPath[Len(ncPath) - 1].diags = 0
  /\ Last(ncPath).type = "IfStatement"
  /\ Last(ncPath).diags = 1

\* the innermost BlockStatement at or above node i (0 if there is none)
NcBlockAbove(i) ==
  IF \E k \in 1..i : ncPath[k].type = "BlockStatement"
  THEN CHOOSE k \in 1..i :
         /\ ncPath[k].type = "BlockStatement"
         /\ \A m \in (k + 1)..i : ncPath[m].type # "BlockStatement"
  ELSE 0

NcNoScopeBetween(from, to) == \A m \in from..to : ~NcOpensScope(m)

\* C3: a conditional whose innermost enclosing block is standalone (its parent
\* is Program or a BlockStatement) is reported by its count from that block
\* alone; when that block is the body of a conditional, a loop or a switch case
\* the count runs on through the block to the enclosing scope.
StandaloneBlockReset ==
  \A i \in 1..Len(ncPath) :
    LET b == NcBlockAbove(i) IN
    NcIsConditional(i) /\ b > 1 /\ NcNoScopeBetween(b + 1, i) =>
      IF ncPath[b - 1].type \in {"Program", "BlockStatement"}
      THEN ncPath[i].diags = (IF NcCountedBetween(b + 1, i) > maxDepth THEN 1 ELSE 0)
      ELSE IF ncPath[b - 1].type \in
                {"IfStatement", "WhileStatement", "SwitchCase"}
      THEN ncPath[i].diags =
             (IF NcCountedBetween(NcScopeStart(b) + 1, i) > maxDepth THEN 1 ELSE 0)
      ELSE TRUE

\* C3 witness: inside a standalone block that sits in the body of an if, a
\* conditional within the threshold of the block is not reported although
\* its count from the function or program would exceed the threshold
StandaloneBlockResetWitness ==
  /\ ncPath # <<>>
  /\ NcIsConditional(Len(ncPath))
  /\ LET i == Len(ncPath)
         b == NcBlockAbove(i)
     IN /\ b > 2
        /\ ncPath[b - 1].type = "BlockStatement"
        /\ ncPath[b - 2].type = "IfStatement"
        /\ NcNoScopeBetween(b + 1, i)
        /\ NcCountedBetween(b + 1, i) = maxDepth
        /\ ncPath[i].diags = 0

\* the latest callback was the one of a conditional the host has just
\* entered (none of its children visited yet)
NcAtConditional ==
  /\ ncPath # <<>>
  /\ NcIsConditional(Len(ncPath))
  /\ Last(ncPath).rank = 0
  /\ scopeStack # <<>>

\* C16 as stated: the increment of a conditional construct (if, ternary or
\* switch) is 0 exactly when the construct is the alternate of an enclosing
\* conditional, and 1 in every other case.
AlternateIncrement ==
  NcAtConditional =>
    LET i == Len(ncPath)
        isAlternate == /\ i > 1
                       /\ NcIsConditional(i - 1)
                       /\ ncPath[i].key = "alternate"
    IN Last(Last(scopeStack).increments) = (IF isAlternate THEN 0 ELSE 1)

(***************************************************************************)
(* no-inline-components (src/unnamed/part_017).                            *)
(*                                                                         *)
(* The file being linted is a table of AST nodes in source order.  A node  *)
(* is [type, name, attr, key, parent]: name is the name of an Identifier,  *)
(* attr the operator of an AssignmentExpression, key the property of the   *)
(* parent that holds the node, parent the position of the parent (0 for    *)
(* the Program).  A subtree is such a table whose node 1 is its root.      *)
(***************************************************************************)
RECURSIVE IcAttach(_, _)
IcAttach(base, kids) ==
  IF kids = <<>> THEN base
  ELSE LET key == Head(kids)[1]
           sub == Head(kids)[2]
           off == Len(base)
           moved == [j \in 1..Len(sub) |->
                       IF j = 1 THEN [sub[j] EXCEPT !.key = key, !.parent = 1]
                       ELSE [sub[j] EXCEPT !.parent = @ + off]]
       IN IcAttach(base \o moved, Tail(kids))

IcTreeOf(type, name, attr, kids) ==
  IcAttach(<<[type |-> type, name |-> name, attr |-> attr, key |-> "", parent |-> 0]>>,
           kids)

IcList(key, subs) == [i \in 1..Len(subs) |-> <<key, subs[i]>>]

\* the node builders of the rule's tests
createIdentifier(name) == IcTreeOf("Identifier", name, "", <<>>)
createJSXElement == IcTreeOf("JSXElement", "", "", <<>>)
createReturnStatement(argument) ==
  IcTreeOf("ReturnStatement", "", "", <<<<"argument", argument>>>>)
createVariableDeclaration(name, init) ==
  IcTreeOf("VariableDeclaration", "", "const", <<<<"declarations",
    IcTreeOf("VariableDeclarator", "", "",
             <<<<"id", createIdentifier(name)>>, <<"init", init>>>>)>>>>)
createExpressionStatement(expression) ==
  IcTreeOf("ExpressionStatement", "", "", <<<<"expression", expression>>>>)
createAssignmentExpression(operator, name, right) ==
  IcTreeOf("AssignmentExpression", "", operator,
           <<<<"left", createIdentifier(name)>>, <<"right", right>>>>)
createMemberExpression(object, property) ==
  IcTreeOf("MemberExpression", "", "",
           <<<<"object", createIdentifier(object)>>,
             <<"property", createIdentifier(property)>>>>)
createCallExpression(callee, arguments) ==
  IcTreeOf("CallExpression", "", "",
           <<<<"callee", callee>>>> \o IcList("arguments", arguments))
createBlockStatement(statements) ==
  IcTreeOf("BlockStatement", "", "", IcList("body", statements))
createArrowFunctionExpression(body) ==
  IcTreeOf("ArrowFunctionExpression", "", "", <<<<"body", body>>>>)
createFunctionDeclaration(name, statements) ==
  IcTreeOf("FunctionDeclaration", "", "",
           <<<<"id", createIdentifier(name)>>,
             <<"body", createBlockStatement(statements)>>>>)
createFunctionExpression(name, statements) ==
  IcTreeOf("FunctionExpression", "", "",
           <<<<"id", createIdentifier(name)>>,
             <<"body", createBlockStatement(statements)>>>>)
\* <Tabs options={{ tabBarIcon: fn }} />
createJSXElementWithProp(fn) ==
  IcTreeOf("JSXElement", "", "", <<<<"openingElement",
    IcTreeOf("JSXOpeningElement", "", "", <<<<"attributes",
      IcTreeOf("JSXAttribute", "", "", <<<<"value",
        IcTreeOf("JSXExpressionContainer", "", "", <<<<"expression",
          IcTreeOf("ObjectExpression", "", "", <<<<"properties",
            IcTreeOf("Property", "", "",
                     <<<<"key", createIdentifier("tabBarIcon")>>,
                       <<"value", fn>>>>)>>>>)>>>>)>>>>)>>>>)>>>>)

(***************************************************************************)
(* The files the host lints: every Program of at most IcMaxStmts           *)
(* statements (a function with a block body counts as one more than its    *)
(* body), built from the statement shapes the rule's tests use.  Functions *)
(* are named after their nesting level.                                    *)
(***************************************************************************)
IcFnName(level) ==
  CASE level = 1 -> "Outer"
    [] level = 2 -> "Inner"
    [] level = 3 -> "Innermost"
    [] OTHER -> "Deepest"

\* statements without a block of their own
IcPlainStatements(level) ==
  LET jsx == createJSXElement
      name == IcFnName(level)
      arrow == createArrowFunctionExpression(jsx)
  IN { \* return <div />;   return view;
       createReturnStatement(jsx),
       createReturnStatement(createIdentifier("view")),
       \* const view = <div />;   view = <div />;   view.push(<div />);
       createVariableDeclaration("view", jsx),
       createExpressionStatement(createAssignmentExpression("=", "view", jsx)),
       createExpressionStatement(
         createCallExpression(createMemberExpression("view", "push"), <<jsx>>)),
       \* const Inner = () => <div />;
       createVariableDeclaration(name, arrow),
       \* const Inner = () => function Deepest() { return <div />; };
       createVariableDeclaration(name,
         createArrowFunctionExpression(
           createFunctionExpression("Deepest", <<createReturnStatement(jsx)>>))),
       \* const Inner = useCallback(() => <div />);
       createVariableDeclaration(name,
         createCallExpression(createIdentifier("useCallback"), <<arrow>>)),
       \* const Inner = (() => <div />)();
       createVariableDeclaration(name, createCallExpression(arrow, <<>>)),
       \* items.map(() => <div />);
       createExpressionStatement(
         createCallExpression(createMemberExpression("items", "map"), <<arrow>>)),
       \* return <Tabs options={{ tabBarIcon: () => <div /> }} />;
       createReturnStatement(createJSXElementWithProp(arrow)),
       \* return () => <div />;
       createReturnStatement(arrow) }

\* function Inner() { ... }   const Inner = (() => { ... })();
IcFunctionStatements(level, statements) ==
  LET name == IcFnName(level) IN
  { createFunctionDeclaration(name, statements),
    createVariableDeclaration(name,
      createCallExpression(
        createArrowFunctionExpression(createBlockStatement(statements)), <<>>)) }

RECURSIVE IcStatements(_, _), IcStatementLists(_, _)
\* the statements of cost at most budget, each with its cost
IcStatements(budget, level) ==
  IF budget = 0 THEN {}
  ELSE {[tree |-> s, cost |-> 1] : s \in IcPlainStatements(level)}
       \cup UNION {{[tree |-> f, cost |-> 1 + body.cost] :
                      f \in IcFunctionStatements(level, body.trees)} :
                   body \in {b \in IcStatementLists(budget - 1, level + 1) :
                               b.trees # <<>>}}

IcStatementLists(budget, level) ==
  IF budget = 0 THEN {[trees |-> <<>>, cost |-> 0]}
  ELSE LET shorter == IcStatementLists(budget - 1, level)
           last == IcStatements(budget, level)
       IN shorter
          \cup {[trees |-> Append(l.trees, s.tree), cost |-> l.cost + s.cost] :
                 <<l, s>> \in {p \in shorter \X last : p[1].cost + p[2].cost <= budget}}

\* the file with the given top-level statements
IcFile(trees) == IcTreeOf("Program", "", "", IcList("body", trees))

\* the files of the corpus are those of the statement lists of cost at most
\* IcMaxStmts: a list of lower cost, alone or followed by one more statement
\* that keeps the cost within IcMaxStmts
IcPrefixes == IcStatementLists(IcMaxStmts - 1, 1)
IcLastStatements == IcStatements(IcMaxStmts, 1)
IcPrefixesOfCost == [c \in 0..(IcMaxStmts - 1) |-> {l \in IcPrefixes : l.cost = c}]
IcLastWithin == [c \in 1..IcMaxStmts |-> {s \in IcLastStatements : s.cost <= c}]

(***************************************************************************)
(* Reading the AST.                                                        *)
(***************************************************************************)
\* the children of node i, in source order
IcChildren(t, i) ==
  SelectSeq([j \in 1..Len(t) |-> j], LAMBDA j : t[j].parent = i)

\* node[key] for a property holding one node; 0 is null / undefined
IcChild(t, i, key) ==
  LET held == SelectSeq(IcChildren(t, i), LAMBDA j : t[j].key = key)
  IN IF held = <<>> THEN 0 ELSE Head(held)

\* node[key] for a property holding an array of nodes
IcChildList(t, i, key) == SelectSeq(IcChildren(t, i), LAMBDA j : t[j].key = key)

JSX_NODE_TYPES == {"JSXElement", "JSXFragment"}
FUNCTION_NODE_TYPES ==
  {"FunctionDeclaration", "FunctionExpression", "ArrowFunctionExpression"}

IC_isFunctionLike(t, i) == i # 0 /\ t[i].type \in FUNCTION_NODE_TYPES

RECURSIVE getEnclosingFunction(_, _)
getEnclosingFunction(t, i) ==
  LET current == IF i = 0 THEN 0 ELSE t[i].parent IN
  IF current = 0 THEN 0
  ELSE IF IC_isFunctionLike(t, current) THEN current
  ELSE getEnclosingFunction(t, current)

isFunctionUsedAsJsxProp_Never(t, node) == FALSE

isFunctionUsedAsJsxProp(t, node) ==
  LET RECURSIVE walk(_)
      walk(current) ==
        IF current = 0 THEN FALSE
        ELSE IF t[current].type = "JSXAttribute" THEN TRUE
        ELSE IF IC_isFunctionLike(t, current) THEN FALSE
        ELSE walk(t[current].parent)
  IN walk(t[node].parent)

isFunctionImmediatelyInvoked_Never(t, node) == FALSE

isFunctionImmediatelyInvoked(t, node) ==
  LET parent == t[node].parent IN
  /\ parent # 0
  /\ t[parent].type = "CallExpression"
  /\ IcChild(t, parent, "callee") = node

\* mutant of expressionContainsJsx: the children of a nested function are
\* traversed as well
expressionContainsJsx_ThroughFunctions(t, root) ==
  LET RECURSIVE loop(_)
      loop(stack) ==
        IF stack = <<>> THEN FALSE
        ELSE LET current == Last(stack) IN
             IF t[current].type \in JSX_NODE_TYPES THEN TRUE
             ELSE loop(Front(stack) \o IcChildren(t, current))
  IN IF root = 0 THEN FALSE ELSE loop(<<root>>)


expressionContainsJsx(t, root) ==
  LET RECURSIVE loop(_)
      loop(stack) ==
        IF stack = <<>> THEN FALSE
        ELSE LET current == Last(stack) IN
             IF t[current].type \in JSX_NODE_TYPES THEN TRUE
             ELSE IF t[current].type \in FUNCTION_NODE_TYPES /\ current # root
                  THEN loop(Front(stack))
             ELSE loop(Front(stack) \o IcChildren(t, current))
  IN IF root = 0 THEN FALSE ELSE loop(<<root>>)

RECURSIVE expressionProducesJsx(_, _, _)
expressionProducesJsx(t, root, bindingNames) ==
  IF root = 0 THEN FALSE
  ELSE IF expressionContainsJsx(t, root) THEN TRUE
  ELSE LET type == t[root].type
           via(key) == expressionProducesJsx(t, IcChild(t, root, key), bindingNames)
       IN
       CASE type = "Identifier" -> t[root].name \in bindingNames
         [] type = "ConditionalExpression" -> via("consequent") \/ via("alternate")
         [] type = "LogicalExpression" -> via("left") \/ via("right")
         [] type = "SequenceExpression" ->
              LET expressions == IcChildList(t, root, "expressions") IN
              IF expressions = <<>> THEN FALSE
              ELSE expressionProducesJsx(t, Last(expressions), bindingNames)
         [] type = "ArrayExpression" ->
              \E k \in 1..Len(IcChildList(t, root, "elements")) :
                LET element == IcChildList(t, root, "elements")[k] IN
                IF t[element].type = "SpreadElement"
                THEN expressionProducesJsx(t, IcChild(t, element, "argument"),
                                           bindingNames)
                ELSE expressionProducesJsx(t, element, bindingNames)
         [] type = "ParenthesizedExpression" -> via("expression")
         [] type \in {"AwaitExpression", "UnaryExpression", "UpdateExpression"} ->
              via("argument")
         [] type \in {"TSAsExpression", "TSTypeAssertion", "TSNonNullExpression",
                      "ChainExpression"} -> via("expression")
         [] type = "CallExpression" -> via("callee")
         [] type = "MemberExpression" -> via("object")
         [] OTHER -> FALSE

RECURSIVE collectBindingNames(_, _)
\* the names collectBindingNames pushes for pattern, in order
collectBindingNames(t, pattern) ==
  LET RECURSIVE each(_)
      each(nodes) ==
        IF nodes = <<>> THEN <<>>
        ELSE LET n == Head(nodes)
                 inner == CASE t[n].type = "RestElement" -> IcChild(t, n, "argument")
                            [] t[n].type = "Property" -> IcChild(t, n, "value")
                            [] OTHER -> n
             IN collectBindingNames(t, inner) \o each(Tail(nodes))
  IN
  IF pattern = 0 THEN <<>>
  ELSE CASE t[pattern].type = "Identifier" -> <<t[pattern].name>>
         [] t[pattern].type = "ArrayPattern" ->
              each(IcChildList(t, pattern, "elements"))
         [] t[pattern].type = "ObjectPattern" ->
              each(SelectSeq(IcChildList(t, pattern, "properties"),
                             LAMBDA p : t[p].type \in {"Property", "RestElement"}))
         [] t[pattern].type = "AssignmentPattern" ->
              collectBindingNames(t, IcChild(t, pattern, "left"))
         [] t[pattern].type = "RestElement" ->
              collectBindingNames(t, IcChild(t, pattern, "argument"))
         [] OTHER -> <<>>

\* the name of an Identifier held under key, "" otherwise
IcIdentifierName(t, i, key) ==
  LET held == IF i = 0 THEN 0 ELSE IcChild(t, i, key) IN
  IF held # 0 /\ t[held].type = "Identifier" THEN t[held].name ELSE ""

getFunctionName(t, node) ==
  LET parent == t[node].parent
      callParent == IF parent = 0 THEN 0 ELSE t[parent].parent
  IN
  IF IcIdentifierName(t, node, "id") # "" THEN IcIdentifierName(t, node, "id")
  ELSE IF parent = 0 THEN ""
  ELSE CASE t[parent].type = "VariableDeclarator" -> IcIdentifierName(t, parent, "id")
         [] t[parent].type = "AssignmentExpression" ->
              IcIdentifierName(t, parent, "left")
         [] t[parent].type \in {"Property", "MethodDefinition"} ->
              IcIdentifierName(t, parent, "key")
         [] t[parent].type = "CallExpression" /\ callParent # 0 ->
              CASE t[callParent].type = "VariableDeclarator" ->
                     IcIdentifierName(t, callParent, "id")
                [] t[callParent].type = "AssignmentExpression" ->
                     IcIdentifierName(t, callParent, "left")
                [] OTHER -> ""
         [] OTHER -> ""

(***************************************************************************)
(* Messages are the sequence of the pieces the template strings join, so   *)
(* that a name is in a message exactly when it is one of the pieces.       *)
(***************************************************************************)
describeFunction(name) ==
  IF name # "" THEN <<"function '", name, "'">> ELSE <<"this function">>

describeNested(name) ==
  IF name # "" THEN <<"function '", name, "'">> ELSE <<"an anonymous function">>

createAssignmentMessage(names, fnName) ==
  LET RECURSIVE join(_)
      join(rest) == IF Len(rest) = 1 THEN <<"'", rest[1], "'">>
                    ELSE <<"'", rest[1], "'", ", ">> \o join(Tail(rest))
      target == IF names = <<>> THEN <<"local variables">>
                ELSE IF Len(names) = 1 THEN <<"local '", names[1], "'">>
                ELSE <<"locals ">> \o join(names)
  IN <<"Avoid storing JSX in ">> \o target \o <<" inside ">>
     \o describeFunction(fnName) \o <<"; return the JSX directly instead.">>

createNestedFunctionMessage(childName, parentName) ==
  <<"JSX-returning ">> \o describeNested(childName)
  \o <<" should not be declared inside ">> \o describeFunction(parentName)
  \o <<". Extract it to module scope.">>

createIIFEMessage(name) ==
  <<"JSX-returning ">> \o describeNested(name)
  \o <<" should not be declared as an immediately invoked function expression (IIFE). Extract it to a named function at module scope.">>

(***************************************************************************)
(* The rule's state and handlers.  A handler takes the rule state          *)
(* [frames, stack, reports] and gives the state it leaves behind.          *)
(***************************************************************************)
IcRuleState == [frames |-> icFrames, stack |-> functionStack, reports |-> icReports]

\* mutant of currentFunction: the bottom of the stack instead of its top
currentFunction_Outermost(st) == IF st.stack = <<>> THEN 0 ELSE Head(st.stack)

\* position of the current FunctionContext in frames, 0 for null
currentFunction(st) == IF st.stack = <<>> THEN 0 ELSE Last(st.stack)

enterFunction(t, st, node) ==
  LET body == IcChild(t, node, "body")
      returnsJsx == /\ t[node].type = "ArrowFunctionExpression"
                    /\ body # 0
                    /\ t[body].type # "BlockStatement"
                    /\ expressionProducesJsx(t, body, {})
      fnCtx == [node |-> node,
                parent |-> currentFunction(st),
                name |-> getFunctionName(t, node),
                returnsJsx |-> returnsJsx,
                jsxBindingNames |-> {},
                jsxAssignments |-> <<>>,
                nestedJsxChildren |-> <<>>]
  IN [st EXCEPT !.frames = Append(@, fnCtx),
                !.stack = Append(@, Len(st.frames) + 1)]

\* mutant of exitFunction: a nested function is reported at its own exit
\* instead of being queued with its parent
exitFunction_ReportsAtOnce(t, st) ==
  IF st.stack = <<>> THEN st
  ELSE
    LET fnCtx == st.frames[Last(st.stack)]
        popped == [st EXCEPT !.stack = Front(@)]
        queued ==
          IF /\ fnCtx.parent # 0
             /\ fnCtx.returnsJsx
             /\ fnCtx.name # ""
             /\ ~isFunctionUsedAsJsxProp(t, fnCtx.node)
          THEN [popped EXCEPT !.reports =
                  Append(@, [node |-> fnCtx.node,
                             message |-> createNestedFunctionMessage(
                                           fnCtx.name, st.frames[fnCtx.parent].name)])]
          ELSE popped
        assignments ==
          [k \in 1..Len(fnCtx.jsxAssignments) |->
             [node |-> fnCtx.jsxAssignments[k].node,
              message |-> createAssignmentMessage(fnCtx.jsxAssignments[k].names,
                                                  fnCtx.name)]]
        nested ==
          [k \in 1..Len(fnCtx.nestedJsxChildren) |->
             [node |-> fnCtx.nestedJsxChildren[k].node,
              message |-> createNestedFunctionMessage(fnCtx.nestedJsxChildren[k].name,
                                                      fnCtx.name)]]
    IN
    IF fnCtx.returnsJsx /\ isFunctionImmediatelyInvoked(t, fnCtx.node)
    THEN [popped EXCEPT !.reports =
            Append(@, [node |-> fnCtx.node, message |-> createIIFEMessage(fnCtx.name)])]
    ELSE IF ~fnCtx.returnsJsx THEN queued
    ELSE [queued EXCEPT !.reports = @ \o assignments \o nested]

\* mutant of exitFunction: the nested-function diagnostics come before the
\* store diagnostics
exitFunction_NestedFirst(t, st) ==
  IF st.stack = <<>> THEN st
  ELSE
    LET fnCtx == st.frames[Last(st.stack)]
        popped == [st EXCEPT !.stack = Front(@)]
        queued ==
          IF /\ fnCtx.parent # 0
             /\ fnCtx.returnsJsx
             /\ fnCtx.name # ""
             /\ ~isFunctionUsedAsJsxProp(t, fnCtx.node)
          THEN [popped EXCEPT !.frames[fnCtx.parent].nestedJsxChildren =
                  Append(@, [node |-> fnCtx.node, name |-> fnCtx.name])]
          ELSE popped
        assignments ==
          [k \in 1..Len(fnCtx.jsxAssignments) |->
             [node |-> fnCtx.jsxAssignments[k].node,
              message |-> createAssignmentMessage(fnCtx.jsxAssignments[k].names,
                                                  fnCtx.name)]]
        nested ==
          [k \in 1..Len(fnCtx.nestedJsxChildren) |->
             [node |-> fnCtx.nestedJsxChildren[k].node,
              message |-> createNestedFunctionMessage(fnCtx.nestedJsxChildren[k].name,
                                                      fnCtx.name)]]
    IN
    IF fnCtx.returnsJsx /\ isFunctionImmediatelyInvoked(t, fnCtx.node)
    THEN [popped EXCEPT !.reports =
            Append(@, [node |-> fnCtx.node, message |-> createIIFEMessage(fnCtx.name)])]
    ELSE IF ~fnCtx.returnsJsx THEN queued
    ELSE [queued EXCEPT !.reports = @ \o nested \o assignments]

\* mutant of exitFunction: a function that does not return JSX hands the
\* children queued for it to its own parent
exitFunction_PassesUp(t, st) ==
  IF st.stack = <<>> THEN st
  ELSE
    LET fnCtx == st.frames[Last(st.stack)]
        popped == [st EXCEPT !.stack = Front(@)]
        queued ==
          IF /\ fnCtx.parent # 0
             /\ fnCtx.returnsJsx
             /\ fnCtx.name # ""
             /\ ~isFunctionUsedAsJsxProp(t, fnCtx.node)
          THEN [popped EXCEPT !.frames[fnCtx.parent].nestedJsxChildren =
                  Append(@, [node |-> fnCtx.node, name |-> fnCtx.name])]
          ELSE popped
        handedUp ==
          IF fnCtx.parent # 0
          THEN [popped EXCEPT !.frames[fnCtx.parent].nestedJsxChildren =
                  @ \o fnCtx.nestedJsxChildren]
          ELSE popped
        assignments ==
          [k \in 1..Len(fnCtx.jsxAssignments) |->
             [node |-> fnCtx.jsxAssignments[k].node,
              message |-> createAssignmentMessage(fnCtx.jsxAssignments[k].names,
                                                  fnCtx.name)]]
        nested ==
          [k \in 1..Len(fnCtx.nestedJsxChildren) |->
             [node |-> fnCtx.nestedJsxChildren[k].node,
              message |-> createNestedFunctionMessage(fnCtx.nestedJsxChildren[k].name,
                                                      fnCtx.name)]]
    IN
    IF fnCtx.returnsJsx /\ isFunctionImmediatelyInvoked(t, fnCtx.node)
    THEN [popped EXCEPT !.reports =
            Append(@, [node |-> fnCtx.node, message |-> createIIFEMessage(fnCtx.name)])]
    ELSE IF ~fnCtx.returnsJsx THEN handedUp
    ELSE [queued EXCEPT !.reports = @ \o assignments \o nested]

exitFunction(t, st) ==
  IF st.stack = <<>> THEN st
  ELSE
    LET fnCtx == st.frames[Last(st.stack)]
        popped == [st EXCEPT !.stack = Front(@)]
        queued ==
          IF /\ fnCtx.parent # 0
             /\ fnCtx.returnsJsx
             /\ fnCtx.name # ""
             /\ ~isFunctionUsedAsJsxProp(t, fnCtx.node)
          THEN [popped EXCEPT !.frames[fnCtx.parent].nestedJsxChildren =
                  Append(@, [node |-> fnCtx.node, name |-> fnCtx.name])]
          ELSE popped
        assignments ==
          [k \in 1..Len(fnCtx.jsxAssignments) |->
             [node |-> fnCtx.jsxAssignments[k].node,
              message |-> createAssignmentMessage(fnCtx.jsxAssignments[k].names,
                                                  fnCtx.name)]]
        nested ==
          [k \in 1..Len(fnCtx.nestedJsxChildren) |->
             [node |-> fnCtx.nestedJsxChildren[k].node,
              message |-> createNestedFunctionMessage(fnCtx.nestedJsxChildren[k].name,
                                                      fnCtx.name)]]
    IN
    IF fnCtx.returnsJsx /\ isFunctionImmediatelyInvoked(t, fnCtx.node)
    THEN [popped EXCEPT !.reports =
            Append(@, [node |-> fnCtx.node, message |-> createIIFEMessage(fnCtx.name)])]
    ELSE IF ~fnCtx.returnsJsx THEN queued
    ELSE [queued EXCEPT !.reports = @ \o assignments \o nested]

handleReturnStatement(t, st, node) ==
  LET fnCtx == currentFunction(st)
      argument == IcChild(t, node, "argument")
  IN
  IF fnCtx = 0 THEN st
  ELSE IF argument = 0 \/ IC_isFunctionLike(t, argument) THEN st
  ELSE IF expressionProducesJsx(t, argument, st.frames[fnCtx].jsxBindingNames)
       THEN [st EXCEPT !.frames[fnCtx].returnsJsx = TRUE]
  ELSE st

\* fnCtx.jsxBindingNames.add(...) for each name; fnCtx.jsxAssignments.push(...)
IcRecordAssignment(st, fnCtx, node, names) ==
  [st EXCEPT !.frames[fnCtx].jsxBindingNames = @ \cup {names[k] : k \in 1..Len(names)},
             !.frames[fnCtx].jsxAssignments = Append(@, [node |-> node, names |-> names])]

\* mutant of handleVariableDeclarator: an initializer that is a name JSX was
\* stored in counts as JSX
handleVariableDeclarator_Propagates(t, st, node) ==
  LET fnCtx == currentFunction(st)
      init == IcChild(t, node, "init")
  IN
  IF fnCtx = 0 THEN st
  ELSE IF init = 0 \/ IC_isFunctionLike(t, init) THEN st
  ELSE IF ~expressionProducesJsx(t, init, st.frames[fnCtx].jsxBindingNames) THEN st
  ELSE IcRecordAssignment(st, fnCtx, init, collectBindingNames(t, IcChild(t, node, "id")))

handleVariableDeclarator(t, st, node) ==
  LET fnCtx == currentFunction(st)
      init == IcChild(t, node, "init")
  IN
  IF fnCtx = 0 THEN st
  ELSE IF init = 0 \/ IC_isFunctionLike(t, init) THEN st
  ELSE IF ~expressionContainsJsx(t, init) THEN st
  ELSE IcRecordAssignment(st, fnCtx, init, collectBindingNames(t, IcChild(t, node, "id")))

handleAssignmentExpression(t, st, node) ==
  LET fnCtx == currentFunction(st)
      right == IcChild(t, node, "right")
      left == IcIdentifierName(t, node, "left")
  IN
  IF t[node].attr # "=" THEN st
  ELSE IF fnCtx = 0 THEN st
  ELSE IF right = 0 \/ IC_isFunctionLike(t, right) THEN st
  ELSE IF ~expressionContainsJsx(t, right) THEN st
  ELSE IcRecordAssignment(st, fnCtx, right, IF left # "" THEN <<left>> ELSE <<>>)

handleCallExpression(t, st, node) ==
  LET fnCtx == currentFunction(st)
      callee == IcChild(t, node, "callee")
      isPush == /\ callee # 0
                /\ t[callee].type = "MemberExpression"
                /\ IcIdentifierName(t, callee, "property") = "push"
      arrayName == IcIdentifierName(t, callee, "object")
      hasJsxArgument ==
        \E k \in 1..Len(IcChildList(t, node, "arguments")) :
          LET arg == IcChildList(t, node, "arguments")[k] IN
          t[arg].type # "SpreadElement" /\ expressionContainsJsx(t, arg)
  IN
  IF fnCtx = 0 THEN st
  ELSE IF isPush /\ arrayName # "" /\ hasJsxArgument
       THEN IcRecordAssignment(st, fnCtx, node, <<arrayName>>)
  ELSE st

(***************************************************************************)
(* The host walks the file depth first and calls the visitor: the callback *)
(* of a node on entering it, its ":exit" callback after its children.      *)
(***************************************************************************)
RECURSIVE IcCallbacks(_, _)
IcCallbacks(t, i) ==
  LET RECURSIVE below(_)
      below(kids) == IF kids = <<>> THEN <<>>
                     ELSE IcCallbacks(t, Head(kids)) \o below(Tail(kids))
      registered == FUNCTION_NODE_TYPES
                    \cup {"ReturnStatement", "VariableDeclarator",
                          "AssignmentExpression", "CallExpression"}
  IN (IF t[i].type \in registered THEN <<[node |-> i, exit |-> FALSE]>> ELSE <<>>)
     \o below(IcChildren(t, i))
     \o (IF t[i].type \in FUNCTION_NODE_TYPES THEN <<[node |-> i, exit |-> TRUE]>> ELSE <<>>)

\* the next callback is the one of a node of this type
IcNext(type, exit) ==
  /\ icAgenda # <<>>
  /\ icTree[Head(icAgenda).node].type = type
  /\ Head(icAgenda).exit = exit

IcDone(st) ==
  /\ icAgenda' = Tail(icAgenda)
  /\ icFrames' = st.frames
  /\ functionStack' = st.stack
  /\ icReports' = st.reports
  /\ UNCHANGED <<icTree, otherThanJsx>>

IcVisitFunction(type) ==
  /\ IcNext(type, FALSE)
  /\ IcDone(IF IC_isFunctionLike(icTree, Head(icAgenda).node)
            THEN enterFunction(icTree, IcRuleState, Head(icAgenda).node)
            ELSE IcRuleState)

IcLeaveFunction(type) ==
  /\ IcNext(type, TRUE)
  /\ IcDone(exitFunction(icTree, IcRuleState))

IC_FunctionDeclaration == IcVisitFunction("FunctionDeclaration")
IC_FunctionDeclaration_exit == IcLeaveFunction("FunctionDeclaration")
IC_FunctionExpression == IcVisitFunction("FunctionExpression")
IC_FunctionExpression_exit == IcLeaveFunction("FunctionExpression")
IC_ArrowFunctionExpression == IcVisitFunction("ArrowFunctionExpression")
IC_ArrowFunctionExpression_exit == IcLeaveFunction("ArrowFunctionExpression")

IC_ReturnStatement ==
  /\ IcNext("ReturnStatement", FALSE)
  /\ IcDone(handleReturnStatement(icTree, IcRuleState, Head(icAgenda).node))

IC_VariableDeclarator ==
  /\ IcNext("VariableDeclarator", FALSE)
  /\ IcDone(handleVariableDeclarator(icTree, IcRuleState, Head(icAgenda).node))

IC_AssignmentExpression ==
  /\ IcNext("AssignmentExpression", FALSE)
  /\ IcDone(handleAssignmentExpression(icTree, IcRuleState, Head(icAgenda).node))

IC_CallExpression ==
  /\ IcNext("CallExpression", FALSE)
  /\ IcDone(handleCallExpression(icTree, IcRuleState, Head(icAgenda).node))

InitJsx ==
  /\ \E c \in 0..(IcMaxStmts - 1) :
       \E l \in IcPrefixesOfCost[c] :
         \/ icTree = IcFile(l.trees)
         \/ \E s \in IcLastWithin[IcMaxStmts - c] :
              icTree = IcFile(Append(l.trees, s.tree))
  /\ icAgenda = IcCallbacks(icTree, 1)
  /\ icFrames = <<>>
  /\ functionStack = <<>>
  /\ icReports = <<>>
  /\ IdleNest
  /\ IdleMut
  /\ IdlePure
  /\ IdleCase
  /\ IdleDate
  /\ IdleHooks
  /\ IdleEnv
  /\ IdleReact

NextJsx ==
  \/ IC_FunctionDeclaration
  \/ IC_FunctionDeclaration_exit
  \/ IC_FunctionExpression
  \/ IC_FunctionExpression_exit
  \/ IC_ArrowFunctionExpression
  \/ IC_ArrowFunctionExpression_exit
  \/ IC_ReturnStatement
  \/ IC_VariableDeclarator
  \/ IC_AssignmentExpression
  \/ IC_CallExpression

SpecJsx == InitJsx /\ [][NextJsx]_vars

(***************************************************************************)
(* Properties of no-inline-components.  What a function of the file is     *)
(* and does is read off the AST alone, not off the rule's bookkeeping.     *)
(***************************************************************************)
IcFunctions == {i \in DOMAIN icTree : icTree[i].type \in FUNCTION_NODE_TYPES}

\* the function whose body node i belongs to (0 at module level)
IcOwner(i) == getEnclosingFunction(icTree, i)

\* node j lies in the subtree of node i with no function boundary between them
RECURSIVE IcWithin(_, _)
IcWithin(i, j) ==
  IF j = i THEN TRUE
  ELSE IF j = 0 \/ icTree[j].type \in FUNCTION_NODE_TYPES THEN FALSE
  ELSE IcWithin(i, icTree[j].parent)

\* expression i has a JSX element in it that is not inside a nested function
IcHasJsx(i) ==
  /\ i # 0
  /\ icTree[i].type \notin FUNCTION_NODE_TYPES
  /\ \E j \in DOMAIN icTree : icTree[j].type \in JSX_NODE_TYPES /\ IcWithin(i, j)

\* the JSX stores of the file: [at |-> the node whose callback records the
\* store, node |-> the node a diagnostic for it is attached to, names]
IcStores ==
  {[at |-> d, node |-> IcChild(icTree, d, "init"),
    names |-> {IcIdentifierName(icTree, d, "id")}] :
     d \in {d \in DOMAIN icTree : /\ icTree[d].type = "VariableDeclarator"
                                  /\ IcHasJsx(IcChild(icTree, d, "init"))}}
  \cup
  {[at |-> a, node |-> IcChild(icTree, a, "right"),
    names |-> {IcIdentifierName(icTree, a, "left")}] :
     a \in {a \in DOMAIN icTree : /\ icTree[a].type = "AssignmentExpression"
                                  /\ icTree[a].attr = "="
                                  /\ IcHasJsx(IcChild(icTree, a, "right"))}}
  \cup
  {[at |-> c, node |-> c,
    names |-> {IcIdentifierName(icTree, IcChild(icTree, c, "callee"), "object")}] :
     c \in {c \in DOMAIN icTree :
              /\ icTree[c].type = "CallExpression"
              /\ IcChild(icTree, c, "callee") # 0
              /\ icTree[IcChild(icTree, c, "callee")].type = "MemberExpression"
              /\ IcIdentifierName(icTree, IcChild(icTree, c, "callee"), "property") = "push"
              /\ \E k \in 1..Len(IcChildList(icTree, c, "arguments")) :
                   IcHasJsx(IcChildList(icTree, c, "arguments")[k])}}

\* the stores recorded in the frame of function f
IcStoresOf(f) == {s \in IcStores : IcOwner(s.at) = f}

\* the names function f has stored JSX in before reaching node r
IcStoredBefore(f, r) == UNION {s.names : s \in {s \in IcStoresOf(f) : s.at < r}}

\* function f returns a UI element: its expression body, or the argument of
\* one of its own return statements, is not a function and produces JSX
IcReturnsUI(f) ==
  \/ LET body == IcChild(icTree, f, "body") IN
     /\ icTree[f].type = "ArrowFunctionExpression"
     /\ body # 0
     /\ icTree[body].type \notin FUNCTION_NODE_TYPES \cup {"BlockStatement"}
     /\ expressionProducesJsx(icTree, body, {})
  \/ \E r \in DOMAIN icTree :
       LET argument == IcChild(icTree, r, "argument") IN
       /\ icTree[r].type = "ReturnStatement"
       /\ IcOwner(r) = f
       /\ argument # 0
       /\ icTree[argument].type \notin FUNCTION_NODE_TYPES
       /\ expressionProducesJsx(icTree, argument, IcStoredBefore(f, r))

IcName(f) == getFunctionName(icTree, f)

\* function f is the callee of a call expression
IcIsIIFE(f) ==
  /\ icTree[f].parent # 0
  /\ icTree[icTree[f].parent].type = "CallExpression"
  /\ icTree[f].key = "callee"

\* a JSXAttribute is met on the way up from f before any function
RECURSIVE IcAttributeAbove(_)
IcAttributeAbove(i) ==
  LET p == icTree[i].parent IN
  IF p = 0 \/ icTree[p].type \in FUNCTION_NODE_TYPES THEN FALSE
  ELSE IF icTree[p].type = "JSXAttribute" THEN TRUE
  ELSE IcAttributeAbove(p)

\* the host has made the ":exit" callback of function f
IcExited(f) ==
  /\ icTree # <<>>
  /\ \A k \in 1..Len(icAgenda) : icAgenda[k] # [node |-> f, exit |-> TRUE]

IcPieces(message) == {message[k] : k \in 1..Len(message)}
IcIsNestedReport(r) == " should not be declared inside " \in IcPieces(r.message)
IcIsStoreReport(r) == "Avoid storing JSX in " \in IcPieces(r.message)
IcIsIIFEReport(r) == ~IcIsNestedReport(r) /\ ~IcIsStoreReport(r)

\* the positions in the report log of the reports attached to node i
IcReportsOn(i) == {k \in 1..Len(icReports) : icReports[k].node = i}

\* named function g returns a UI element directly inside function f, which
\* returns a UI element too
IcNestedComponent(f, g) ==
  /\ IcOwner(g) = f
  /\ IcName(g) # ""
  /\ IcReturnsUI(g)
  /\ IcReturnsUI(f)

\* node g carries exactly one report, a nested-function report whose message
\* has the names of g and of f in it, and carries it since f exited
IcReportedOnceInside(f, g) ==
  IF IcExited(f)
  THEN /\ Cardinality(IcReportsOn(g)) = 1
       /\ \A k \in IcReportsOn(g) :
            /\ IcIsNestedReport(icReports[k])
            /\ {IcName(g), IcName(f)} \subseteq IcPieces(icReports[k].message)
  ELSE IcReportsOn(g) = {}

\* C4: a named function that returns a UI element directly inside another
\* function that returns a UI element is reported exactly once, on its own
\* node, when the outer function exits, with both names in the message.  The
\* inner functions the rule treats otherwise on purpose are left out: those
\* inside a JSX attribute and those immediately invoked.
NestedComponentReported ==
  \A f \in IcFunctions, g \in IcFunctions :
    /\ IcNestedComponent(f, g)
    /\ ~IcIsIIFE(g)
    /\ ~IcAttributeAbove(g)
    => IcReportedOnceInside(f, g)

\* the reports for the stores recorded in the frame of function f
IcStoreReportsOf(f) ==
  {k \in 1..Len(icReports) :
     IcIsStoreReport(icReports[k]) /\ IcOwner(icReports[k].node) = f}

\* C5 as stated: a function that does not return a UI element gets no
\* diagnostic, and neither does a named function nested directly inside it get
\* one for being nested there, whatever the inner function contains.
NoReportsInsideNonUIFunction ==
  \A f \in IcFunctions :
    ~IcReturnsUI(f) =>
      /\ IcStoreReportsOf(f) = {}
      /\ \A g \in IcFunctions :
           IcOwner(g) = f /\ IcName(g) # "" =>
             \A k \in IcReportsOn(g) : ~IcIsNestedReport(icReports[k])

\* C6 as stated: once a function has exited, the local-storage diagnostics
\* emitted for it are exactly one per JSX store recorded in its own frame if it
\* returns a UI element, and none if it does not; none are emitted before.
StoreReportsPerStore ==
  \A f \in IcFunctions :
    IF IcExited(f) /\ IcReturnsUI(f)
    THEN /\ \A s \in IcStoresOf(f) :
              Cardinality({k \in IcStoreReportsOf(f) : icReports[k].node = s.node}) = 1
         /\ \A k \in IcStoreReportsOf(f) :
              \E s \in IcStoresOf(f) : icReports[k].node = s.node
    ELSE IcStoreReportsOf(f) = {}

\* C7: a function that returns a UI element and is the callee of a call is
\* reported exactly once, by its own exit callback, with the IIFE message, and
\* is never queued as a nested child of the function around it.
IIFEReportedOnce ==
  \A g \in IcFunctions :
    IcReturnsUI(g) /\ IcIsIIFE(g) =>
      /\ Cardinality(IcReportsOn(g)) = IF IcExited(g) THEN 1 ELSE 0
      /\ \A k \in IcReportsOn(g) :
           /\ IcIsIIFEReport(icReports[k])
           /\ icReports[k].message = createIIFEMessage(IcName(g))
      /\ \A i \in 1..Len(icFrames) :
           \A k \in 1..Len(icFrames[i].nestedJsxChildren) :
             icFrames[i].nestedJsxChildren[k].node # g

\* a named immediately invoked function that returns a UI element, directly
\* inside a function that returns one too, both exited
IIFEReportedOnceWitness ==
  \E f \in IcFunctions, g \in IcFunctions :
    /\ IcNestedComponent(f, g)
    /\ IcIsIIFE(g)
    /\ ~IcIsIIFE(f)
    /\ IcExited(f)
    /\ IcReportsOn(g) # {}

\* C8: a function is queued with its parent, and reported as nested, only if
\* its resolved name is not empty and no JSXAttribute lies between it and the
\* function around it.
NestedOnlyNamedOutsideAttributes ==
  /\ \A i \in 1..Len(icFrames) :
       \A k \in 1..Len(icFrames[i].nestedJsxChildren) :
         LET child == icFrames[i].nestedJsxChildren[k] IN
         /\ child.name # ""
         /\ child.name = IcName(child.node)
         /\ ~IcAttributeAbove(child.node)
  /\ \A k \in 1..Len(icReports) :
       IcIsNestedReport(icReports[k]) =>
         /\ IcName(icReports[k].node) # ""
         /\ "an anonymous function" \notin IcPieces(icReports[k].message)
         /\ ~IcAttributeAbove(icReports[k].node)

\* an anonymous callback and a function inside a JSX attribute, each returning
\* a UI element inside a function that returns one; all have exited
NestedOnlyNamedOutsideAttributesWitness ==
  /\ icAgenda = <<>>
  /\ \E f \in IcFunctions, g \in IcFunctions :
       /\ IcOwner(g) = f /\ IcReturnsUI(f) /\ IcReturnsUI(g)
       /\ IcAttributeAbove(g) /\ IcName(g) # ""
  /\ \E f \in IcFunctions, g \in IcFunctions :
       /\ IcOwner(g) = f /\ IcReturnsUI(f) /\ IcReturnsUI(g)
       /\ IcName(g) = "" /\ ~IcIsIIFE(g)

\* the functions whose enter callback has been made and whose exit callback
\* has not, outermost first
IcOpenFunctions ==
  SelectSeq([i \in 1..Len(icTree) |-> i],
            LAMBDA i :
              /\ icTree[i].type \in FUNCTION_NODE_TYPES
              /\ \A k \in 1..Len(icAgenda) :
                   icAgenda[k].node = i => icAgenda[k].exit
              /\ \E k \in 1..Len(icAgenda) : icAgenda[k].node = i)

\* the function stack holds the frames of the open functions, in order, and
\* is empty once every callback has been made
FunctionStackMatchesOpenFunctions ==
  /\ [k \in 1..Len(functionStack) |-> icFrames[functionStack[k]].node] = IcOpenFunctions
  /\ icAgenda = <<>> => functionStack = <<>>

\* the reports this step adds
IcNewReports == {icReports'[k] : k \in (Len(icReports) + 1)..Len(icReports')}

\* C30: a nested-function diagnostic is never emitted at the nested
\* function's own exit; its record waits in the parent's frame from the
\* nested function's exit on and the diagnostic is emitted only by the exit
\* callback of the parent.
NestedReportedAtParentExit ==
  /\ [](\A k \in 1..Len(icFrames) :
         \A j \in 1..Len(icFrames[k].nestedJsxChildren) :
           LET g == icFrames[k].nestedJsxChildren[j].node IN
           /\ IcOwner(g) = icFrames[k].node
           /\ IcExited(g)
           /\ ~IcExited(icFrames[k].node) => IcReportsOn(g) = {})
  /\ [][\A r \in IcNewReports :
          IcIsNestedReport(r) =>
            /\ icAgenda # <<>>
            /\ Head(icAgenda).exit
            /\ Head(icAgenda).node = IcOwner(r.node)
            /\ Head(icAgenda).node # r.node]_vars

\* a nested function has been reported although the return statement that
\* makes its parent JSX-returning comes after it in the file
NestedReportedAtParentExitWitness ==
  \E k \in 1..Len(icReports) :
    LET g == icReports[k].node IN
    /\ IcIsNestedReport(icReports[k])
    /\ \E r \in DOMAIN icTree :
         /\ icTree[r].type = "ReturnStatement"
         /\ IcOwner(r) = IcOwner(g)
         /\ r > g
         /\ IcHasJsx(IcChild(icTree, r, "argument"))
    /\ icTree[IcChild(icTree, IcOwner(g), "body")].type = "BlockStatement"

(***************************************************************************)
(* no-top-level-let (src/unnamed/part_016): the `let` check and the        *)
(* tracking of mutations of top-level const bindings.                      *)
(*                                                                         *)
(* The host walks the file depth first; mtPath holds the nodes that are    *)
(* open.  The expressions the callbacks read without the host visiting     *)
(* them with a callback of their own are kept in the node: the id and init *)
(* of a declarator, and the target of a mutation (the left of an           *)
(* assignment, the argument of an update, the callee of a call) as the     *)
(* chain of nodes from the target itself down through .object and          *)
(* .expression to its innermost node.                                      *)
(***************************************************************************)
MtNames == {"state", "other"}

mutatingMethods ==
  {"push", "pop", "splice", "shift", "unshift", "sort", "reverse", "copyWithin",
   "fill", "set", "add", "delete", "clear"}

MtNoExpression == [type |-> "", name |-> ""]

\* a link or the innermost node of a target chain
MtLink(type, computed, property, name) ==
  [type |-> type, computed |-> computed, property |-> property, name |-> name]

\* .property of a MemberExpression: x.name for each of the names, and
\* x[name], x["name"] for the first of them, and x[0]
MtProperties(first, names) ==
  {[type |-> "Identifier", computed |-> FALSE, isString |-> FALSE, name |-> n] :
     n \in names \cup {first}}
  \cup {[type |-> "Identifier", computed |-> TRUE, isString |-> FALSE, name |-> first],
        [type |-> "Literal", computed |-> TRUE, isString |-> TRUE, name |-> first],
        [type |-> "Literal", computed |-> TRUE, isString |-> FALSE, name |-> ""]}

MtMember(p) == MtLink("MemberExpression", p.computed, p, "")

\* what a chain goes on with below its first node: state, getState(),
\* x.items, (x as T), x!
RECURSIVE MtInner(_)
MtInner(links) ==
  {<<MtLink("Identifier", FALSE, MtNoExpression, n)>> : n \in MtNames}
  \cup {<<MtLink("CallExpression", FALSE, MtNoExpression, "")>>}
  \cup (IF links = 0 THEN {}
        ELSE {<<l>> \o rest :
                l \in {MtMember([type |-> "Identifier", computed |-> FALSE,
                                 isString |-> FALSE, name |-> "items"]),
                       MtLink("TSAsExpression", FALSE, MtNoExpression, ""),
                       MtLink("TSNonNullExpression", FALSE, MtNoExpression, "")},
                rest \in MtInner(links - 1)})

\* the targets of the mutations in the files: the member expressions over
\* the given property names, and targets that are no member expression
MtTargets(first, names) ==
  {<<MtMember(p)>> \o rest :
     p \in MtProperties(first, names), rest \in MtInner(MtMaxChain - 1)}
  \cup {<<MtLink("Identifier", FALSE, MtNoExpression, n)>> : n \in MtNames}
  \cup {<<MtLink("TSAsExpression", FALSE, MtNoExpression, "")>> \o rest :
          rest \in MtInner(0)}

\* id and init of the declarators in the files: state, { a, b }
MtIds ==
  {[type |-> "Identifier", name |-> "state"], [type |-> "ObjectPattern", name |-> ""]}

MtInits ==
  {[type |-> "", callee |-> MtNoExpression],
   [type |-> "ObjectExpression", callee |-> MtNoExpression],
   [type |-> "ArrayExpression", callee |-> MtNoExpression],
   [type |-> "Literal", callee |-> MtNoExpression],
   [type |-> "TSAsExpression", callee |-> MtNoExpression],
   [type |-> "NewExpression", callee |-> [type |-> "MemberExpression", name |-> ""]]}
  \cup {[type |-> "NewExpression", callee |-> [type |-> "Identifier", name |-> n]] :
          n \in {"Map", "Set", "WeakMap", "WeakSet", "Date"}}

\* x.count = 1, x.count++ and the like; x.push(1), x.get(1) and the like
MtMemberTargets == MtTargets("count", {})
MtCallees == MtTargets("push", (mutatingMethods \ {"push"}) \cup {"get"})

\* an AST node as the host hands it over; rank is the place of the child the
\* host visited last (0 before the first); declared is the history of a
\* scope: the bindings declared in it so far, as [name, how]
MtNode(type, key) ==
  [type |-> type, key |-> key, kind |-> "", id |-> MtNoExpression,
   init |-> [type |-> "", callee |-> MtNoExpression], target |-> <<>>, rank |-> 0,
   declared |-> {}]

\* the children the host visits below a node of the given type
MtSlots(type) ==
  LET statements == {"VariableDeclaration", "FunctionDeclaration", "BlockStatement",
                     "ExpressionStatement"}
  IN
  CASE type = "Program" ->
         {NcSlot("body", 1, TRUE,
                 statements \cup {"ExportNamedDeclaration", "ForStatement",
                                  "ForOfStatement"})}
    [] type = "ExportNamedDeclaration" ->
         {NcSlot("declaration", 1, FALSE, {"VariableDeclaration"})}
    [] type \in {"FunctionDeclaration", "ArrowFunctionExpression"} ->
         {NcSlot("body", 1, FALSE, {"BlockStatement"})}
    [] type = "BlockStatement" -> {NcSlot("body", 1, TRUE, statements)}
    [] type = "ForStatement" ->
         {NcSlot("init", 1, FALSE, {"VariableDeclaration"}),
          NcSlot("body", 2, FALSE, {"BlockStatement"})}
    [] type = "ForOfStatement" ->
         {NcSlot("left", 1, FALSE, {"VariableDeclaration"}),
          NcSlot("body", 2, FALSE, {"BlockStatement"})}
    [] type = "VariableDeclaration" ->
         {NcSlot("declarations", 1, TRUE, {"VariableDeclarator"})}
    [] type = "ExpressionStatement" ->
         {NcSlot("expression", 1, FALSE,
                 {"AssignmentExpression", "UpdateExpression", "CallExpression"})}
    [] type = "CallExpression" ->
         {NcSlot("arguments", 1, TRUE, {"ArrowFunctionExpression"})}
    [] OTHER -> {}

MtKeys == {"body", "declaration", "init", "left", "declarations", "expression", "arguments"}

\* the host may enter a child of `type' in slot `key' of the innermost open node
MtCanEnter(type, key) ==
  /\ mtPath # <<>>
  /\ Len(mtPath) < MtMaxPath
  /\ \E s \in MtSlots(Last(mtPath).type) :
       /\ s.key = key
       /\ type \in s.types
       /\ \/ s.rank > Last(mtPath).rank
          \/ s.rank = Last(mtPath).rank /\ s.multi

\* the chain of open nodes after the host has entered node as a child
MtPushed(node) ==
  Append([mtPath EXCEPT ![Len(mtPath)].rank =
            (CHOOSE s \in MtSlots(Last(mtPath).type) : s.key = node.key).rank],
         node)

(***************************************************************************)
(* The rule.  A node is path[i]; node.parent is path[i-1].                 *)
(***************************************************************************)
isTopLevelVariableDeclaration(path, i) ==
  IF i <= 1 THEN FALSE
  ELSE IF path[i - 1].type = "Program" THEN TRUE
  ELSE IF /\ path[i - 1].type = "ExportNamedDeclaration"
          /\ i > 2
          /\ path[i - 2].type = "Program"
       THEN TRUE
  ELSE FALSE

isMutableObjectInit(init) ==
  IF init.type = "" THEN FALSE
  ELSE IF init.type \in {"ObjectExpression", "ArrayExpression"} THEN TRUE
  ELSE IF init.type = "NewExpression" /\ init.callee.type = "Identifier"
       THEN init.callee.name \in {"Map", "Set", "WeakMap", "WeakSet"}
  ELSE FALSE

\* position in the chain of the node unwrapExpression returns for the node at
\* position i; 0 is null
unwrapExpression_AsIs(chain, i) == IF i > Len(chain) THEN 0 ELSE i

RECURSIVE unwrapExpression(_, _)
unwrapExpression(chain, i) ==
  IF i > Len(chain) THEN 0
  ELSE IF chain[i].type \in {"TSAsExpression", "TSNonNullExpression"}
       THEN unwrapExpression(chain, i + 1)
  ELSE i

\* "" is null
getMemberRootName(chain) ==
  LET RECURSIVE loop(_)
      loop(current) ==
        IF current = 0 THEN ""
        ELSE IF chain[current].type = "MemberExpression"
             THEN loop(unwrapExpression(chain, current + 1))
        ELSE IF chain[current].type = "Identifier" THEN chain[current].name
        ELSE ""
  IN loop(unwrapExpression(chain, 1))

getMemberPropertyName(chain) ==
  IF chain = <<>> \/ chain[1].type # "MemberExpression" THEN ""
  ELSE IF chain[1].property.type = "Identifier" /\ chain[1].computed = FALSE
       THEN chain[1].property.name
  ELSE IF chain[1].property.type = "Literal" /\ chain[1].property.isString
       THEN chain[1].property.name
  ELSE ""

\* context.report({ node, messageId, data: { name } })
MtReport(messageId, name) == [messageId |-> messageId, name |-> name]

\* what the VariableDeclaration callback reports for path[i]
MtLetReports(path, i) ==
  IF path[i].kind # "let" THEN <<>>
  ELSE IF isTopLevelVariableDeclaration(path, i) THEN <<>>
  ELSE IF i > 1 /\ path[i - 1].type = "ForStatement" /\ path[i].key = "init" THEN <<>>
  ELSE IF /\ i > 1
          /\ path[i - 1].type \in {"ForInStatement", "ForOfStatement"}
          /\ path[i].key = "left"
       THEN <<>>
  ELSE <<MtReport("noLet", "")>>

\* the Set after the VariableDeclarator callback for path[i]
MtTrackedAfter(bindings, path, i) ==
  IF i <= 1 \/ path[i - 1].type # "VariableDeclaration" THEN bindings
  ELSE IF path[i - 1].kind # "const" THEN bindings
  ELSE IF ~isTopLevelVariableDeclaration(path, i - 1) THEN bindings
  ELSE IF ~isMutableObjectInit(path[i].init) THEN bindings
  ELSE IF path[i].id.type # "Identifier" THEN bindings
  ELSE bindings \cup {path[i].id.name}

\* what the AssignmentExpression and UpdateExpression callbacks report for a
\* node with the given left / argument
MtMemberReports(bindings, target) ==
  LET rootName == getMemberRootName(target) IN
  IF target = <<>> \/ target[1].type # "MemberExpression" THEN <<>>
  ELSE IF rootName = "" \/ rootName \notin bindings THEN <<>>
  ELSE <<MtReport("topLevelMutation", rootName)>>

\* what the CallExpression callback reports for a node with the given callee
MtCallReports(bindings, callee) ==
  LET rootName == getMemberRootName(callee)
      methodName == getMemberPropertyName(callee)
  IN
  IF callee = <<>> \/ callee[1].type # "MemberExpression" THEN <<>>
  ELSE IF rootName = "" \/ rootName \notin bindings THEN <<>>
  ELSE IF methodName = "" \/ methodName \notin mutatingMethods THEN <<>>
  ELSE <<MtReport("topLevelMutation", rootName)>>

\* the host enters node and its callback makes the reports
MtEnter(node, reports) ==
  /\ mtPath' = MtPushed(node)
  /\ mtReported' = reports

MT_VariableDeclaration ==
  \E key \in MtKeys, kind \in {"const", "let", "var"} :
    LET node == [MtNode("VariableDeclaration", key) EXCEPT !.kind = kind]
        entered == MtPushed(node)
    IN /\ MtCanEnter("VariableDeclaration", key)
       /\ MtEnter(node, MtLetReports(entered, Len(entered)))
       /\ UNCHANGED <<topLevelMutableBindings, otherThanMut>>

\* the innermost open node that is a scope for let and const
MtScope(path) ==
  CHOOSE i \in 1..Len(path) :
    /\ path[i].type \in {"Program", "BlockStatement", "ForStatement", "ForOfStatement"}
    /\ \A j \in (i + 1)..Len(path) :
         path[j].type \notin {"Program", "BlockStatement", "ForStatement",
                              "ForOfStatement"}

\* how the file declares a binding, in the words of the rule's documentation:
\* "tracked" for a const directly under Program (or under an export there)
\* initialised with an object literal, an array literal or
\* new Map/Set/WeakMap/WeakSet; "local" for a let, and for a const elsewhere
MtHow(kind, under, above, init) ==
  LET topLevel == \/ under = "Program"
                  \/ under = "ExportNamedDeclaration" /\ above = "Program"
      mutable == \/ init.type \in {"ObjectExpression", "ArrayExpression"}
                 \/ /\ init.type = "NewExpression"
                    /\ init.callee \in {[type |-> "Identifier", name |-> c] :
                                         c \in {"Map", "Set", "WeakMap", "WeakSet"}}
  IN IF kind = "const" /\ topLevel
     THEN (IF mutable THEN "tracked" ELSE "")
     ELSE IF kind \in {"let", "const"} THEN "local" ELSE ""

MT_VariableDeclarator ==
  /\ MtCanEnter("VariableDeclarator", "declarations")
  /\ \E id \in MtIds, init \in MtInits :
       LET node == [MtNode("VariableDeclarator", "declarations")
                      EXCEPT !.id = id, !.init = init]
           entered == MtPushed(node)
           scope == MtScope(mtPath)
           how == MtHow(Last(mtPath).kind,
                        IF Len(mtPath) > 1 THEN mtPath[Len(mtPath) - 1].type ELSE "",
                        IF Len(mtPath) > 2 THEN mtPath[Len(mtPath) - 2].type ELSE "",
                        init)
       IN \* a scope declares a name once
          /\ id.type = "Identifier" =>
               \A d \in mtPath[scope].declared : d.name # id.name
          /\ mtPath' = IF id.type = "Identifier" /\ how # ""
                       THEN [entered EXCEPT ![scope].declared =
                               @ \cup {[name |-> id.name, how |-> how]}]
                       ELSE entered
          /\ mtReported' = <<>>
          /\ topLevelMutableBindings' =
               MtTrackedAfter(topLevelMutableBindings, entered, Len(entered))
  /\ UNCHANGED <<otherThanMut>>

MT_AssignmentExpression ==
  /\ MtCanEnter("AssignmentExpression", "expression")
  /\ \E left \in MtMemberTargets :
       MtEnter([MtNode("AssignmentExpression", "expression") EXCEPT !.target = left],
               MtMemberReports(topLevelMutableBindings, left))
  /\ UNCHANGED <<topLevelMutableBindings, otherThanMut>>

MT_UpdateExpression ==
  /\ MtCanEnter("UpdateExpression", "expression")
  /\ \E argument \in MtMemberTargets :
       MtEnter([MtNode("UpdateExpression", "expression") EXCEPT !.target = argument],
               MtMemberReports(topLevelMutableBindings, argument))
  /\ UNCHANGED <<topLevelMutableBindings, otherThanMut>>

MT_CallExpression ==
  /\ MtCanEnter("CallExpression", "expression")
  /\ \E callee \in MtCallees :
       MtEnter([MtNode("CallExpression", "expression") EXCEPT !.target = callee],
               MtCallReports(topLevelMutableBindings, callee))
  /\ UNCHANGED <<topLevelMutableBindings, otherThanMut>>

\* nodes the rule registers no callback for, and every ":exit"; the rule
\* object is built once (createOnce), so after the host has left a Program it
\* may hand the same callbacks the Program of the next file
MT_HostEnterOther ==
  \/ /\ mtPath = <<>>
     /\ mtPath' = <<MtNode("Program", "")>>
     /\ mtReported' = <<>>
     /\ UNCHANGED <<topLevelMutableBindings, otherThanMut>>
  \/ \E key \in MtKeys,
        type \in {"ExportNamedDeclaration", "FunctionDeclaration", "BlockStatement",
                  "ExpressionStatement", "ForStatement", "ForOfStatement",
                  "ArrowFunctionExpression"} :
       /\ MtCanEnter(type, key)
       /\ MtEnter(MtNode(type, key), <<>>)
       /\ UNCHANGED <<topLevelMutableBindings, otherThanMut>>

MT_HostExit ==
  /\ mtPath # <<>>
  /\ mtPath' = Front(mtPath)
  /\ mtReported' = <<>>
  /\ UNCHANGED <<topLevelMutableBindings, otherThanMut>>

InitMut ==
  /\ mtPath = <<>>
  /\ topLevelMutableBindings = {}
  /\ mtReported = <<>>
  /\ IdleNest
  /\ IdleJsx
  /\ IdlePure
  /\ IdleCase
  /\ IdleDate
  /\ IdleHooks
  /\ IdleEnv
  /\ IdleReact

NextMut ==
  \/ MT_VariableDeclaration
  \/ MT_VariableDeclarator
  \/ MT_AssignmentExpression
  \/ MT_UpdateExpression
  \/ MT_CallExpression
  \/ MT_HostEnterOther
  \/ MT_HostExit

SpecMut == InitMut /\ [][NextMut]_vars

(***************************************************************************)
(* Properties of the mutation tracking of no-top-level-let.                *)
(***************************************************************************)
MtMutationTypes == {"AssignmentExpression", "UpdateExpression", "CallExpression"}

\* the latest callback was the one of a mutation node the host has just
\* entered (none of its children visited yet)
MtAtMutation ==
  /\ mtPath # <<>>
  /\ Last(mtPath).type \in MtMutationTypes
  /\ Last(mtPath).rank = 0

\* the target is a member expression whose chain of .object (through `as' and
\* `!') ends in the identifier n
MtRootedAt(chain, n) ==
  /\ chain # <<>>
  /\ chain[1].type = "MemberExpression"
  /\ Last(chain).type = "Identifier" /\ Last(chain).name = n
  /\ \A k \in 1..(Len(chain) - 1) :
       chain[k].type \in {"MemberExpression", "TSAsExpression", "TSNonNullExpression"}

\* the method a call names: x.m(...) or x["m"](...); "" when it names none
MtMethod(chain) ==
  LET p == chain[1].property IN
  IF p.type = "Identifier" /\ ~p.computed THEN p.name
  ELSE IF p.type = "Literal" /\ p.isString THEN p.name
  ELSE ""

\* the names of the top-level const declarators with a mutable initializer
\* visited so far
MtTrackedConsts == {d.name : d \in {d \in mtPath[1].declared : d.how = "tracked"}}

\* C9: once a top-level const declarator named n with a mutable initializer
\* has been visited, every member assignment, member ++/-- and call of one of
\* the 13 mutating methods rooted at identifier n is reported exactly once,
\* naming n, at any depth; a call of another method on n is not reported.
TrackedMutationsReported ==
  /\ Cardinality(mutatingMethods) = 13
  /\ MtAtMutation =>
       \A n \in MtTrackedConsts :
         LET node == Last(mtPath)
             isMutation == \/ node.type \in {"AssignmentExpression", "UpdateExpression"}
                           \/ MtMethod(node.target) \in mutatingMethods
             otherMethod == /\ node.type = "CallExpression"
                            /\ MtMethod(node.target) # ""
                            /\ MtMethod(node.target) \notin mutatingMethods
         IN MtRootedAt(node.target, n) =>
              /\ isMutation => mtReported = <<MtReport("topLevelMutation", n)>>
              /\ otherMethod => mtReported = <<>>

\* a call of a mutating method inside a function, through `as' or `!', on a
\* top-level const visited before
TrackedMutationsReportedWitness ==
  /\ MtAtMutation
  /\ Len(mtPath) > 4
  /\ \E k \in 1..Len(mtPath) : mtPath[k].type = "FunctionDeclaration"
  /\ Last(mtPath).type = "CallExpression"
  /\ \E n \in MtTrackedConsts : MtRootedAt(Last(mtPath).target, n)
  /\ MtMethod(Last(mtPath).target) \in mutatingMethods
  /\ \E k \in 1..Len(Last(mtPath).target) :
       Last(mtPath).target[k].type \in {"TSAsExpression", "TSNonNullExpression"}
  /\ mtReported # <<>>

\* the binding the identifier n refers to at the innermost open node: how the
\* innermost open scope that declares n declares it ("" if none does)
MtResolved(n) ==
  LET declaring == {i \in 1..Len(mtPath) : \E d \in mtPath[i].declared : d.name = n}
      innermost == CHOOSE i \in declaring : \A j \in declaring : j <= i
  IN IF declaring = {} THEN ""
     ELSE (CHOOSE d \in mtPath[innermost].declared : d.name = n).how

\* the rule object holds what a fresh one would hold at this point of the
\* current file: nothing tracked in an earlier file is left in its Set
MtAsFresh == mtPath # <<>> /\ topLevelMutableBindings = MtTrackedConsts

\* C10 as stated: in a fresh rule instance, a member mutation rooted at a
\* binding declared with let, or with const anywhere but directly under
\* Program (or under an export there), produces no top-level-mutation
\* diagnostic.
LocalMutationsNotReported ==
  MtAtMutation /\ MtAsFresh =>
    \A n \in MtNames :
      MtRootedAt(Last(mtPath).target, n) /\ MtResolved(n) = "local" =>
        \A k \in 1..Len(mtReported) : mtReported[k].messageId # "topLevelMutation"


(***************************************************************************)
(* Properties of the let check of no-top-level-let.                        *)
(***************************************************************************)
\* the latest callback was the one of a variable declaration the host has
\* just entered
MtAtDeclaration ==
  /\ mtPath # <<>>
  /\ Last(mtPath).type = "VariableDeclaration"
  /\ Last(mtPath).rank = 0

\* the declaration is the init of a for statement or the left side of a
\* for-in / for-of statement
MtIsLoopInitializer ==
  LET node == Last(mtPath)
      parent == mtPath[Len(mtPath) - 1]
  IN \/ parent.type = "ForStatement" /\ node.key = "init"
     \/ parent.type \in {"ForInStatement", "ForOfStatement"} /\ node.key = "left"

\* C11 as stated: every let declaration is reported exactly once, inside
\* functions, nested blocks, loop bodies and at global scope, unless it is a
\* loop initializer; a const declaration is never reported by this check.
LetReportedOnce ==
  MtAtDeclaration =>
    LET node == Last(mtPath) IN
    /\ node.kind = "let" /\ ~MtIsLoopInitializer => mtReported = <<MtReport("noLet", "")>>
    /\ node.kind = "let" /\ MtIsLoopInitializer => mtReported = <<>>
    /\ node.kind = "const" => mtReported = <<>>


(***************************************************************************)
(* One rule object, several files.                                         *)
(***************************************************************************)
\* what a rule object built for the current file alone would report at the
\* mutation node just entered: its Set holds the top-level consts with a
\* mutable initializer visited so far in this file
MtFreshReports ==
  LET node == Last(mtPath) IN
  IF node.type = "CallExpression" THEN MtCallReports(MtTrackedConsts, node.target)
  ELSE MtMemberReports(MtTrackedConsts, node.target)

\* C12 as stated: nothing persists across analysis runs; in a tree traversed
\* after another one the rule object emits exactly the diagnostics a fresh
\* rule object would emit for that tree.
SecondTreeAsFresh ==
  MtAtMutation => mtReported = MtFreshReports


\* C18: with options absent or maxDepth of the wrong type the rule behaves as
\* with maxDepth 2, and with a configured maxDepth M a conditional that is
\* not an else-if is reported exactly when its nesting level exceeds M.
ConfiguredMaxDepth ==
  LET configured == ncOptions.given /\ ncOptions.isNumber
      M == IF configured THEN ncOptions.value ELSE 2
  IN \A i \in 1..Len(ncPath) :
       NcIsConditional(i) /\ ~NcIsAlternateIf(i) =>
         ncPath[i].diags = (IF NcLevel(i) > M THEN 1 ELSE 0)

\* with maxDepth 3 configured, a conditional entered at level 4 has just been
\* reported and the one at level 3 above it was not
ConfiguredMaxDepthWitness ==
  /\ ncOptions.given /\ ncOptions.isNumber /\ ncOptions.value = 3
  /\ Len(ncPath) > 4
  /\ NcIsConditional(Len(ncPath))
  /\ NcLevel(Len(ncPath)) = 4
  /\ Last(ncPath).diags = 1
  /\ Len(ncReported) = 1
  /\ \E i \in 1..Len(ncPath) :
       NcIsConditional(i) /\ NcLevel(i) = 3 /\ ncPath[i].diags = 0

\* the sum of the increments on a frame's side stack
RECURSIVE NcSum(_)
NcSum(increments) ==
  IF increments = <<>> THEN 0 ELSE Head(increments) + NcSum(Tail(increments))

\* this step is the exit callback of the innermost open node, a conditional
NcConditionalExits ==
  /\ ncPath # <<>>
  /\ NcIsConditional(Len(ncPath))
  /\ ncPath' = Front(ncPath)

\* C28: in every scope frame the depth counter equals the sum of the
\* increments on the frame's side stack, so it is never negative, and after
\* the exit of a conditional the counter of the innermost frame equals its
\* value just before that conditional's enter.
DepthIsSumOfIncrements ==
  /\ [](\A k \in 1..Len(scopeStack) :
         /\ scopeStack[k].depth = NcSum(scopeStack[k].increments)
         /\ scopeStack[k].depth >= 0)
  /\ [][NcConditionalExits =>
          /\ scopeStack' # <<>>
          /\ Last(scopeStack').depth = Last(ncPath).before]_vars

\* a conditional entered at depth 1 is open, a child of it has been walked
\* and left, and its frame holds two increments that sum to the counter
DepthIsSumOfIncrementsWitness ==
  /\ ncPath # <<>>
  /\ NcIsConditional(Len(ncPath))
  /\ Last(ncPath).rank >= 2
  /\ Last(ncPath).before = 1
  /\ Last(scopeStack).increments = <<1, 1>>
  /\ Last(scopeStack).depth = 2

NcOpenScopes == {i \in 1..Len(ncPath) : NcOpensScope(i)}

\* C29: the frames on the scope stack are those of the open scope nodes, one
\* each and in the same order, so that the frame a scope node's exit pops is
\* the one its enter pushed and a node pops if and only if it pushed; the
\* scope stack is empty when no node is open.
FramesMatchOpenScopes ==
  /\ Len(scopeStack) = Cardinality(NcOpenScopes)
  /\ \A i \in 1..Len(ncPath) :
       NcIsConditional(i) =>
         Len(scopeStack[Cardinality({j \in NcOpenScopes : j < i})].increments) >=
           Cardinality({j \in (NcScopeStart(i) + 1)..i : NcIsConditional(j)})
  /\ ncPath = <<>> => scopeStack = <<>>

\* Program, a function, a block that is a body and a standalone block are
\* open: three frames for four nodes
FramesMatchOpenScopesWitness ==
  /\ Len(ncPath) >= 4
  /\ Len(scopeStack) = 3
  /\ \E i \in 1..Len(ncPath) :
       ncPath[i].type = "BlockStatement" /\ ~isStandaloneBlock(ncPath, i)
  /\ isStandaloneBlock(ncPath, Len(ncPath))

\* C17: an exit callback that fires while the scope stack is empty, or the
\* exit of a conditional while the innermost frame has no increment, is a
\* no-op: it leaves the scope stack as it found it and reports nothing; so
\* does the exit of a function in no-inline-components while its function
\* stack is empty.
StrayExitIsNoOp ==
  /\ ncStray # NcNoStray =>
       /\ scopeStack = ncStray.before
       /\ ncReported = <<>>
  /\ functionStack = <<>> => exitFunction(icTree, IcRuleState) = IcRuleState

\* the exit of a conditional made while the frame of a function or block
\* holds no increment
StrayExitIsNoOpWitness ==
  /\ ncStray.callback = "exitConditional"
  /\ Len(ncStray.before) > 1
  /\ Last(ncStray.before).increments = <<>>
  /\ functionStack = <<>>

(***************************************************************************)
(* no-nested-pure-functions (src/src/oxlint-plugins/                       *)
(* no-nested-pure-functions.js).  The file being linted is a table of AST  *)
(* nodes as for no-inline-components; attr is "computed" on a Property or  *)
(* MemberExpression whose key / property is computed.                      *)
(***************************************************************************)
\* the characters of the names the linted files use
PfSpelling(name) ==
  CASE name = "useState" -> <<"u", "s", "e", "S", "t", "a", "t", "e">>
    [] name = "useCallback" -> <<"u", "s", "e", "C", "a", "l", "l", "b", "a", "c", "k">>
    [] name = "outerVar" -> <<"o", "u", "t", "e", "r", "V", "a", "r">>
    [] name = "inner" -> <<"i", "n", "n", "e", "r">>
    [] name = "items" -> <<"i", "t", "e", "m", "s">>
    [] name = "map" -> <<"m", "a", "p">>
    [] name = "length" -> <<"l", "e", "n", "g", "t", "h">>
    [] name = "Math" -> <<"M", "a", "t", "h">>
    [] name = "key" -> <<"k", "e", "y">>
    [] name = "Outer" -> <<"O", "u", "t", "e", "r">>
    [] OTHER -> <<name>>

\* String.prototype.startsWith
PfStartsWith(name, prefix) ==
  /\ Len(PfSpelling(name)) >= Len(prefix)
  /\ SubSeq(PfSpelling(name), 1, Len(prefix)) = prefix

PfLiteral == IcTreeOf("Literal", "", "", <<>>)

\* (params) => body   and   function (params) { statements }
PfArrow(params, body) ==
  IcTreeOf("ArrowFunctionExpression", "", "",
           IcList("params", [k \in 1..Len(params) |-> createIdentifier(params[k])])
           \o <<<<"body", body>>>>)

PfConst(id, init) ==
  IcTreeOf("VariableDeclaration", "", "const", <<<<"declarations",
    IcTreeOf("VariableDeclarator", "", "", <<<<"id", id>>, <<"init", init>>>>)>>>>)

\* { key: 1 }  and  { [key]: 1 }
PfObject(key, computed) ==
  IcTreeOf("ObjectExpression", "", "", <<<<"properties",
    IcTreeOf("Property", "", IF computed THEN "computed" ELSE "",
             <<<<"key", createIdentifier(key)>>, <<"value", PfLiteral>>>>)>>>>)

\* the function values the files declare
PfFunctions ==
  LET ref(name) == createIdentifier(name)
      ret(argument) == createReturnStatement(argument)
      block(statements) == createBlockStatement(statements)
  IN { \* (x) => x * 2
       PfArrow(<<"x">>, IcTreeOf("BinaryExpression", "", "*",
                                 <<<<"left", ref("x")>>, <<"right", PfLiteral>>>>)),
       \* () => outerVar
       PfArrow(<<>>, ref("outerVar")),
       \* (x) => x.length
       PfArrow(<<"x">>, createMemberExpression("x", "length")),
       \* (x) => { const y = x; return y; }
       PfArrow(<<"x">>, block(<<PfConst(ref("y"), ref("x")), ret(ref("y"))>>)),
       \* () => { const y = outerVar; return y; }
       PfArrow(<<>>, block(<<PfConst(ref("y"), ref("outerVar")), ret(ref("y"))>>)),
       \* () => { { const y = 1; return y; } }
       PfArrow(<<>>, block(<<block(<<PfConst(ref("y"), PfLiteral), ret(ref("y"))>>)>>)),
       \* () => ({ key: 1 })   () => ({ [outerVar]: 1 })
       PfArrow(<<>>, PfObject("key", FALSE)),
       PfArrow(<<>>, PfObject("outerVar", TRUE)),
       \* () => Math
       PfArrow(<<>>, ref("Math")),
       \* () => { return () => outerVar; }   () => () => outerVar
       PfArrow(<<>>, block(<<ret(PfArrow(<<>>, ref("outerVar")))>>)),
       PfArrow(<<>>, PfArrow(<<>>, ref("outerVar"))),
       \* () => <div />   () => useState()
       PfArrow(<<>>, createJSXElement),
       PfArrow(<<>>, createCallExpression(ref("useState"), <<>>)),
       \* function (x) { return x; }
       IcTreeOf("FunctionExpression", "", "",
                <<<<"params", ref("x")>>, <<"body", block(<<ret(ref("x"))>>)>>>>) }

\* const inner = fn;   const { inner } = fn;   const inner = useCallback(fn);
\* items.map(fn);
PfStatements ==
  UNION {{ PfConst(createIdentifier("inner"), fn),
           PfConst(IcTreeOf("ObjectPattern", "", "", <<<<"properties",
                     IcTreeOf("Property", "", "",
                              <<<<"key", createIdentifier("inner")>>,
                                <<"value", createIdentifier("inner")>>>>)>>>>), fn),
           PfConst(createIdentifier("inner"),
                   createCallExpression(createIdentifier("useCallback"), <<fn>>)),
           createExpressionStatement(
             createCallExpression(createMemberExpression("items", "map"), <<fn>>)) } :
         fn \in PfFunctions}

RECURSIVE PfStatementLists(_)
PfStatementLists(n) ==
  IF n = 0 THEN {<<>>}
  ELSE LET shorter == PfStatementLists(n - 1) IN
       shorter \cup {Append(l, s) : l \in {l \in shorter : Len(l) = n - 1},
                                    s \in PfStatements}

\* the files the host lints: the statements at module scope, or inside
\* function Outer() { const outerVar = 1; ... }, or inside
\* const Outer = () => { const outerVar = 1; ... };
PfFiles ==
  LET body(l) == <<PfConst(createIdentifier("outerVar"), PfLiteral)>> \o l
      program(statements) == IcTreeOf("Program", "", "", IcList("body", statements))
  IN UNION {{ program(l),
              program(<<createFunctionDeclaration("Outer", body(l))>>),
              program(<<PfConst(createIdentifier("Outer"),
                                PfArrow(<<>>, createBlockStatement(body(l))))>>) } :
            l \in PfStatementLists(PfMaxStmts)}


(***************************************************************************)
(* The classifier.                                                         *)
(***************************************************************************)
isReactHookCall(t, node) ==
  LET callee == IcChild(t, node, "callee")
      object == IcChild(t, callee, "object")
      property == IcChild(t, callee, "property")
      use == <<"u", "s", "e">>
  IN
  IF t[node].type # "CallExpression" THEN FALSE
  ELSE IF callee = 0 THEN FALSE
  ELSE IF t[callee].type = "Identifier" /\ PfStartsWith(t[callee].name, use) THEN TRUE
  ELSE IF /\ t[callee].type = "MemberExpression"
          /\ object # 0
          /\ t[object].type = "Identifier"
          /\ t[object].name = "React"
          /\ property # 0
          /\ t[property].type = "Identifier"
          /\ PfStartsWith(t[property].name, use)
       THEN TRUE
  ELSE FALSE

\* the nodes the loops of containsJSX, checkNodeForScopeAccess and
\* containsHooks pop from their stack when started at root: root and what is
\* below it, without the inside of a function other than root
PfPopped(t, root) ==
  LET RECURSIVE walk(_)
      walk(current) ==
        {current} \cup
        IF IC_isFunctionLike(t, current) /\ current # root THEN {}
        ELSE UNION {walk(IcChildren(t, current)[k]) :
                      k \in 1..Len(IcChildren(t, current))}
  IN IF root = 0 THEN {} ELSE walk(root)

containsJSX(t, node) ==
  \E current \in PfPopped(t, node) : t[current].type \in {"JSXElement", "JSXFragment"}

globalNames ==
  {"console", "Math", "Date", "JSON", "Object", "Array", "String", "Number", "Boolean",
   "parseInt", "parseFloat", "isNaN", "isFinite", "undefined", "null", "true", "false",
   "Infinity", "NaN", "Map", "Set", "WeakMap", "WeakSet", "Promise", "Symbol", "Error",
   "TypeError", "ReferenceError", "SyntaxError"}

\* the test that makes checkNodeForScopeAccess skip an identifier
PfIsDeclarationPart(t, current) ==
  LET parent == t[current].parent IN
  /\ parent # 0
  /\ \/ t[parent].type = "VariableDeclarator"
     \/ t[parent].type = "FunctionDeclaration"
     \/ t[parent].type = "Property" /\ t[current].key = "key"

checkNodeForScopeAccess(t, node, localNames) ==
  \E current \in PfPopped(t, node) :
    /\ t[current].type = "Identifier"
    /\ ~PfIsDeclarationPart(t, current)
    /\ t[current].name \notin localNames
    /\ t[current].name \notin globalNames

checkExpressionForScopeAccess(t, node, localNames) ==
  checkNodeForScopeAccess(t, node, localNames)

accessesEnclosingScope(t, node, localNames) ==
  LET body == IcChild(t, node, "body") IN
  IF body = 0 THEN FALSE
  ELSE IF t[body].type # "BlockStatement"
       THEN checkExpressionForScopeAccess(t, body, localNames)
  ELSE checkNodeForScopeAccess(t, body, localNames)

RECURSIVE collectPatternNames(_, _)
\* the names collectPatternNames adds for pattern
collectPatternNames(t, pattern) ==
  LET each(nodes, inner(_)) ==
        UNION {collectPatternNames(t, inner(nodes[k])) : k \in 1..Len(nodes)}
      element(n) == IF t[n].type = "RestElement" THEN IcChild(t, n, "argument") ELSE n
      property(n) == CASE t[n].type = "Property" -> IcChild(t, n, "value")
                       [] t[n].type = "RestElement" -> IcChild(t, n, "argument")
                       [] OTHER -> 0
  IN
  IF pattern = 0 THEN {}
  ELSE CASE t[pattern].type = "Identifier" -> {t[pattern].name}
         [] t[pattern].type = "ArrayPattern" ->
              each(IcChildList(t, pattern, "elements"), element)
         [] t[pattern].type = "ObjectPattern" ->
              each(IcChildList(t, pattern, "properties"), property)
         [] t[pattern].type = "AssignmentPattern" ->
              collectPatternNames(t, IcChild(t, pattern, "left"))
         [] t[pattern].type = "RestElement" ->
              collectPatternNames(t, IcChild(t, pattern, "argument"))
         [] OTHER -> {}

collectLocalNames(t, node) ==
  LET params == IcChildList(t, node, "params")
      body == IcChild(t, node, "body")
      statements == IF body # 0 /\ t[body].type = "BlockStatement"
                    THEN SelectSeq(IcChildList(t, body, "body"),
                                   LAMBDA s : t[s].type = "VariableDeclaration")
                    ELSE <<>>
      declared(statement) ==
        UNION {collectPatternNames(t, IcChild(t, IcChildList(t, statement, "declarations")[k], "id")) :
                 k \in 1..Len(IcChildList(t, statement, "declarations"))}
  IN UNION {collectPatternNames(t, params[k]) : k \in 1..Len(params)}
     \cup UNION {declared(statements[k]) : k \in 1..Len(statements)}

containsHooks(t, node) ==
  LET body == IcChild(t, node, "body") IN
  IF body = 0 THEN FALSE
  ELSE \E current \in PfPopped(t, body) : isReactHookCall(t, current)

isWrappedInHook(t, node) ==
  LET parent == t[node].parent IN
  IF parent = 0 THEN FALSE
  ELSE IF t[parent].type = "CallExpression" /\ isReactHookCall(t, parent) THEN TRUE
  ELSE FALSE

isPureFunction(t, node) ==
  IF containsJSX(t, node) THEN FALSE
  ELSE IF containsHooks(t, node) THEN FALSE
  ELSE IF isWrappedInHook(t, node) THEN FALSE
  ELSE IF accessesEnclosingScope(t, node, collectLocalNames(t, node)) THEN FALSE
  ELSE TRUE

(***************************************************************************)
(* The rule.                                                               *)
(***************************************************************************)
\* the reports after handleVariableDeclarator(node)
PF_handleVariableDeclarator(t, reports, node) ==
  LET init == IcChild(t, node, "init")
      id == IcChild(t, node, "id")
      functionName == t[id].name
      enclosingFunction == getEnclosingFunction(t, node)
      enclosingFunctionName == getFunctionName(t, enclosingFunction)
  IN
  IF init = 0 \/ ~IC_isFunctionLike(t, init) THEN reports
  ELSE IF id = 0 \/ t[id].type # "Identifier" THEN reports
  ELSE IF enclosingFunction = 0 THEN reports
  ELSE IF ~isPureFunction(t, init) THEN reports
  ELSE Append(reports,
              [node |-> init,
               message |-> <<"Named pure function '", functionName,
                             "' should not be declared inside '", enclosingFunctionName,
                             "'. Extract it to module scope.">>])

\* the host calls VariableDeclarator for the next declarator of the file
PF_VariableDeclarator ==
  /\ pfAgenda # <<>>
  /\ pfReports' = PF_handleVariableDeclarator(pfTree, pfReports, Head(pfAgenda))
  /\ pfAgenda' = Tail(pfAgenda)
  /\ UNCHANGED <<pfTree, otherThanPure>>

InitPure ==
  /\ pfTree \in PfFiles
  /\ pfAgenda = SelectSeq([i \in 1..Len(pfTree) |-> i],
                          LAMBDA i : pfTree[i].type = "VariableDeclarator")
  /\ pfReports = <<>>
  /\ IdleNest
  /\ IdleJsx
  /\ IdleMut
  /\ IdleCase
  /\ IdleDate
  /\ IdleHooks
  /\ IdleEnv
  /\ IdleReact

NextPure == PF_VariableDeclarator

SpecPure == InitPure /\ [][NextPure]_vars


(***************************************************************************)
(* Properties of no-nested-pure-functions.                                 *)
(***************************************************************************)
\* the declarators whose callback has been made
PfVisited ==
  {d \in DOMAIN pfTree : pfTree[d].type = "VariableDeclarator" /\
                         \A k \in 1..Len(pfAgenda) : pfAgenda[k] # d}

\* the function values bound to an identifier by a visited declarator inside
\* a function
PfNamedNested ==
  {f \in DOMAIN pfTree :
     /\ pfTree[f].type \in FUNCTION_NODE_TYPES
     /\ pfTree[f].key = "init"
     /\ pfTree[f].parent \in PfVisited
     /\ pfTree[IcChild(pfTree, pfTree[f].parent, "id")].type = "Identifier"
     /\ getEnclosingFunction(pfTree, pfTree[f].parent) # 0}

\* an identifier that names what it creates or selects instead of reading a
\* binding: the id of a declarator or function, a parameter, a property key
\* or member property that is not computed, a name in a destructuring pattern
PfIsBindingSide(i) ==
  LET parent == pfTree[i].parent IN
  \/ pfTree[i].key \in {"id", "params"}
  \/ /\ pfTree[parent].type \in {"Property", "MemberExpression"}
     /\ pfTree[i].key \in {"key", "property"}
     /\ pfTree[parent].attr # "computed"
  \/ pfTree[parent].type = "Property" /\
     pfTree[pfTree[parent].parent].type = "ObjectPattern"

\* the identifiers lexically in function f (outside the functions nested in
\* it) that read the binding of a name
PfReferences(f) ==
  {i \in DOMAIN pfTree :
     /\ pfTree[i].type = "Identifier"
     /\ getEnclosingFunction(pfTree, i) = f
     /\ ~PfIsBindingSide(i)}

\* the names function f binds itself: its parameters and the declarators in
\* its body (outside the functions nested in it)
PfBound(f) ==
  {pfTree[i].name : i \in {i \in DOMAIN pfTree :
     /\ pfTree[i].type = "Identifier"
     /\ getEnclosingFunction(pfTree, i) = f
     /\ pfTree[i].key \in {"id", "params"}}}

PfReportsOn(f) == {k \in 1..Len(pfReports) : pfReports[k].node = f}

\* C13 as stated: a named function declared inside another function whose
\* body references an identifier bound in the enclosing function is never
\* classified as pure and never reported.
OuterReferenceNeverPure ==
  \A f \in PfNamedNested :
    LET g == getEnclosingFunction(pfTree, pfTree[f].parent) IN
    (\E i \in PfReferences(f) :
       pfTree[i].name \in PfBound(g) \ PfBound(f)) =>
      /\ ~isPureFunction(pfTree, f)
      /\ PfReportsOn(f) = {}


RECURSIVE PfInside(_, _)
\* node i is below node f
PfInside(i, f) ==
  IF i = 0 \/ pfTree[i].parent = 0 THEN FALSE
  ELSE pfTree[i].parent = f \/ PfInside(pfTree[i].parent, f)

\* function f reads nothing from around it: every identifier below it that
\* reads a binding names something bound below f or a global of the
\* allow-list
PfNoOuterReference(f) ==
  LET below == {i \in DOMAIN pfTree : pfTree[i].type = "Identifier" /\ PfInside(i, f)}
      bound == {pfTree[i].name : i \in {i \in below : pfTree[i].key \in {"id", "params"}}}
  IN \A i \in below : PfIsBindingSide(i) \/ pfTree[i].name \in bound \cup globalNames

PfMessagePieces(k) == {pfReports[k].message[j] : j \in 1..Len(pfReports[k].message)}

\* C14 as stated: a function value bound to an identifier by a declarator
\* inside a function, with no outer reference in its body (and neither JSX
\* nor a hook call), is reported exactly once, on the function node, naming
\* the function and the enclosing function; function values not bound by a
\* declarator and declarators outside every function are never reported.
PureFunctionReportedOnce ==
  /\ \A f \in PfNamedNested :
       /\ PfNoOuterReference(f)
       /\ ~containsJSX(pfTree, f)
       /\ ~containsHooks(pfTree, f)
       => /\ Cardinality(PfReportsOn(f)) = 1
          /\ \A k \in PfReportsOn(f) :
               /\ pfTree[IcChild(pfTree, pfTree[f].parent, "id")].name \in PfMessagePieces(k)
               /\ getFunctionName(pfTree, getEnclosingFunction(pfTree, f))
                    \in PfMessagePieces(k)
  /\ \A k \in 1..Len(pfReports) : pfReports[k].node \in PfNamedNested


\* an identifier in declaration position: the binding side of a declaration
\* or a property key
PfIsDeclarationPosition(i) ==
  \/ pfTree[i].key \in {"id", "params"}
  \/ pfTree[pfTree[i].parent].type = "Property" /\ pfTree[i].key = "key"

\* C15 as stated: the free-reference check excludes only the identifiers in
\* declaration position; every other identifier of the function body outside
\* nested functions is checked against the local names and the allow-list.
FreeReferenceCheckExclusions ==
  \A f \in PfNamedNested :
    accessesEnclosingScope(pfTree, f, collectLocalNames(pfTree, f))
    <=> \E i \in DOMAIN pfTree :
          /\ pfTree[i].type = "Identifier"
          /\ getEnclosingFunction(pfTree, i) = f
          /\ ~PfIsDeclarationPosition(i)
          /\ pfTree[i].name \notin collectLocalNames(pfTree, f) \cup globalNames

(***************************************************************************)
(* jsx-component-pascal-case (src/src/oxlint-plugins/                      *)
(* jsx-component-pascal-case.js).  The file being linted is a table of AST *)
(* nodes as for no-inline-components.                                      *)
(***************************************************************************)
\* the characters of the names the linted files give to functions
JcSpelling(name) ==
  CASE name = "" -> <<>>
    [] name = "myComponent" -> <<"m", "y", "C", "o", "m", "p", "o", "n", "e", "n", "t">>
    [] name = "MyComponent" -> <<"M", "y", "C", "o", "m", "p", "o", "n", "e", "n", "t">>
    [] name = "withAuth" -> <<"w", "i", "t", "h", "A", "u", "t", "h">>
    [] name = "withauth" -> <<"w", "i", "t", "h", "a", "u", "t", "h">>
    [] OTHER -> PfSpelling(name)

\* the character class [A-Z]
JcUpperCase ==
  {"A", "B", "C", "D", "E", "F", "G", "H", "I", "J", "K", "L", "M",
   "N", "O", "P", "Q", "R", "S", "T", "U", "V", "W", "X", "Y", "Z"}

\* String.prototype.toUpperCase on one character of the names in use
JcToUpperCase(c) ==
  CASE c = "m" -> "M"
    [] c = "w" -> "W"
    [] c = "i" -> "I"
    [] OTHER -> c

JcNames == {"myComponent", "MyComponent", "withAuth", "withauth"}

JcElement == createJSXElement
JcFragment == IcTreeOf("JSXFragment", "", "", <<>>)
JcTernary(consequent) ==
  IcTreeOf("ConditionalExpression", "", "",
           <<<<"test", createIdentifier("items")>>,
             <<"consequent", consequent>>,
             <<"alternate", PfLiteral>>>>)
JcMapped(fn) == createCallExpression(createMemberExpression("items", "map"), <<fn>>)
JcReturn == IcTreeOf("ReturnStatement", "", "", <<>>)

\* the bodies a function of the linted files can have
JcBlocks ==
  { <<createReturnStatement(JcElement)>>,
    <<createReturnStatement(JcFragment)>>,
    <<createReturnStatement(PfLiteral)>>,
    <<JcReturn>>,
    <<createReturnStatement(JcTernary(JcElement))>>,
    <<createReturnStatement(createArrowFunctionExpression(JcElement))>>,
    <<createReturnStatement(JcMapped(createArrowFunctionExpression(JcElement)))>>,
    <<IcTreeOf("IfStatement", "", "",
               <<<<"test", createIdentifier("items")>>,
                 <<"consequent",
                   createBlockStatement(<<createReturnStatement(JcElement)>>)>>>>)>>,
    <<PfConst(createIdentifier("inner"),
              createArrowFunctionExpression(
                createBlockStatement(<<createReturnStatement(JcElement)>>))),
      createReturnStatement(PfLiteral)>> }

JcExpressionBodies ==
  { JcElement, PfLiteral, JcTernary(JcFragment),
    createArrowFunctionExpression(JcElement),
    JcMapped(createArrowFunctionExpression(JcElement)) }

JcFewBlocks ==
  { <<createReturnStatement(JcElement)>>, <<createReturnStatement(PfLiteral)>> }

JcAnonymous(statements) ==
  IcTreeOf("FunctionExpression", "", "",
           <<<<"body", createBlockStatement(statements)>>>>)

\* the statements of the linted files: each declares or uses one function
JcStatements ==
  UNION {
    {createFunctionDeclaration(n, b) : b \in JcBlocks}
    \cup {PfConst(createIdentifier(n),
                  createArrowFunctionExpression(createBlockStatement(b))) :
            b \in JcBlocks}
    \cup {PfConst(createIdentifier(n), createArrowFunctionExpression(e)) :
            e \in JcExpressionBodies}
    \cup UNION {
      { PfConst(createIdentifier(n), JcAnonymous(b)),
        PfConst(createIdentifier("Outer"), createFunctionExpression(n, b)),
        createExpressionStatement(
          createAssignmentExpression("=", n,
            createArrowFunctionExpression(createBlockStatement(b)))),
        PfConst(createIdentifier(n),
                createCallExpression(createIdentifier("useCallback"),
                  <<createArrowFunctionExpression(createBlockStatement(b))>>)),
        createExpressionStatement(
          IcTreeOf("ObjectExpression", "", "", <<<<"properties",
            IcTreeOf("Property", "", "",
                     <<<<"key", createIdentifier(n)>>,
                       <<"value", createArrowFunctionExpression(
                                    createBlockStatement(b))>>>>)>>>>)),
        IcTreeOf("ClassDeclaration", "", "",
          <<<<"id", createIdentifier("Outer")>>,
            <<"body", IcTreeOf("ClassBody", "", "", <<<<"body",
              IcTreeOf("MethodDefinition", "", "",
                       <<<<"key", createIdentifier(n)>>,
                         <<"value", JcAnonymous(b)>>>>)>>>>)>>>>),
        createExpressionStatement(
          JcMapped(createArrowFunctionExpression(createBlockStatement(b)))) } :
      b \in JcFewBlocks} :
    n \in JcNames}

RECURSIVE JcStatementLists(_)
JcStatementLists(n) ==
  IF n = 0 THEN {<<>>}
  ELSE LET shorter == JcStatementLists(n - 1) IN
       shorter \cup {Append(l, s) : l \in {l \in shorter : Len(l) = n - 1},
                                    s \in JcStatements}

JcFiles ==
  {IcTreeOf("Program", "", "", IcList("body", l)) : l \in JcStatementLists(JcMaxStmts)}

(***************************************************************************)
(* The rule's helpers.                                                     *)
(***************************************************************************)
isPascalCase(name) ==
  LET s == JcSpelling(name) IN Len(s) >= 1 /\ s[1] \in JcUpperCase

isHOCName(name) ==
  LET s == JcSpelling(name) IN
  /\ Len(s) >= 5
  /\ SubSeq(s, 1, 4) = <<"w", "i", "t", "h">>
  /\ s[5] \in JcUpperCase

JC_getFunctionName(t, node) ==
  LET id == IcChild(t, node, "id")
      parent == t[node].parent
      nameOf(i) == IF i # 0 /\ t[i].type = "Identifier" THEN t[i].name ELSE ""
  IN
  IF t[node].type = "FunctionDeclaration" /\ id # 0 /\ t[id].type = "Identifier"
    THEN t[id].name
  ELSE IF /\ t[node].type \in {"FunctionExpression", "ArrowFunctionExpression"}
          /\ id # 0
          /\ t[id].type = "Identifier"
    THEN t[id].name
  ELSE IF parent = 0 THEN ""
  ELSE IF t[parent].type = "VariableDeclarator" THEN nameOf(IcChild(t, parent, "id"))
  ELSE IF t[parent].type = "AssignmentExpression"
    THEN nameOf(IcChild(t, parent, "left"))
  ELSE IF t[parent].type \in {"Property", "MethodDefinition"} THEN ""
  ELSE IF t[parent].type = "CallExpression" /\ t[parent].parent # 0
    THEN LET callParent == t[parent].parent IN
         IF t[callParent].type = "VariableDeclarator"
           THEN nameOf(IcChild(t, callParent, "id"))
         ELSE IF t[callParent].type = "AssignmentExpression"
           THEN nameOf(IcChild(t, callParent, "left"))
         ELSE ""
  ELSE ""

JC_expressionContainsJsx(t, root) ==
  LET RECURSIVE loop(_)
      loop(stack) ==
        IF stack = <<>> THEN FALSE
        ELSE LET current == Last(stack) IN
             IF t[current].type \in JSX_NODE_TYPES THEN TRUE
             ELSE IF t[current].type \in FUNCTION_NODE_TYPES /\ current # root
                  THEN loop(Front(stack))
             ELSE loop(Front(stack) \o IcChildren(t, current))
  IN IF root = 0 THEN FALSE ELSE loop(<<root>>)

(***************************************************************************)
(* createOnce(context): the callbacks, as functions of the rule's state    *)
(* [stack, reports].                                                       *)
(***************************************************************************)
JcRuleState == [stack |-> jcFunctionStack, reports |-> jcReports]

JC_enterFunction(t, st, node) ==
  LET body == IcChild(t, node, "body")
      fnCtx == [node |-> node,
                name |-> JC_getFunctionName(t, node),
                returnsJsx |->
                  /\ t[node].type = "ArrowFunctionExpression"
                  /\ body # 0
                  /\ t[body].type # "BlockStatement"
                  /\ JC_expressionContainsJsx(t, body)]
  IN [st EXCEPT !.stack = Append(@, fnCtx)]

JC_exitFunction(st) ==
  IF st.stack = <<>> THEN st
  ELSE LET fnCtx == Last(st.stack)
           spelling == JcSpelling(fnCtx.name)
           popped == [st EXCEPT !.stack = Front(@)]
       IN IF /\ fnCtx.returnsJsx
             /\ fnCtx.name # ""
             /\ ~isPascalCase(fnCtx.name)
             /\ ~isHOCName(fnCtx.name)
          THEN [popped EXCEPT !.reports =
                 Append(@, [node |-> fnCtx.node,
                            message |->
                              <<"Function '", fnCtx.name,
                                "' returns JSX and should use PascalCase naming (e.g., '",
                                <<JcToUpperCase(Head(spelling))>> \o Tail(spelling),
                                "').">>])]
          ELSE popped

JC_handleReturnStatement(t, st, node) ==
  LET argument == IcChild(t, node, "argument") IN
  IF st.stack = <<>> THEN st
  ELSE IF argument = 0 \/ IC_isFunctionLike(t, argument) THEN st
  ELSE IF JC_expressionContainsJsx(t, argument)
    THEN [st EXCEPT !.stack[Len(st.stack)].returnsJsx = TRUE]
  ELSE st

(***************************************************************************)
(* The host walks the file depth first and calls the visitor.              *)
(***************************************************************************)
RECURSIVE JcCallbacks(_, _)
JcCallbacks(t, i) ==
  LET RECURSIVE below(_)
      below(kids) == IF kids = <<>> THEN <<>>
                     ELSE JcCallbacks(t, Head(kids)) \o below(Tail(kids))
      registered == FUNCTION_NODE_TYPES \cup {"ReturnStatement"}
  IN (IF t[i].type \in registered THEN <<[node |-> i, exit |-> FALSE]>> ELSE <<>>)
     \o below(IcChildren(t, i))
     \o (IF t[i].type \in FUNCTION_NODE_TYPES THEN <<[node |-> i, exit |-> TRUE]>> ELSE <<>>)

JcNext(type, exit) ==
  /\ jcAgenda # <<>>
  /\ jcTree[Head(jcAgenda).node].type = type
  /\ Head(jcAgenda).exit = exit

JcDone(st) ==
  /\ jcAgenda' = Tail(jcAgenda)
  /\ jcFunctionStack' = st.stack
  /\ jcReports' = st.reports
  /\ UNCHANGED <<jcTree, otherThanCase>>

JcVisitFunction(type) ==
  /\ JcNext(type, FALSE)
  /\ JcDone(IF IC_isFunctionLike(jcTree, Head(jcAgenda).node)
            THEN JC_enterFunction(jcTree, JcRuleState, Head(jcAgenda).node)
            ELSE JcRuleState)

JcLeaveFunction(type) ==
  /\ JcNext(type, TRUE)
  /\ JcDone(JC_exitFunction(JcRuleState))

JC_FunctionDeclaration == JcVisitFunction("FunctionDeclaration")
JC_FunctionDeclaration_exit == JcLeaveFunction("FunctionDeclaration")
JC_FunctionExpression == JcVisitFunction("FunctionExpression")
JC_FunctionExpression_exit == JcLeaveFunction("FunctionExpression")
JC_ArrowFunctionExpression == JcVisitFunction("ArrowFunctionExpression")
JC_ArrowFunctionExpression_exit == JcLeaveFunction("ArrowFunctionExpression")

JC_ReturnStatement ==
  /\ JcNext("ReturnStatement", FALSE)
  /\ JcDone(IF jcTree[Head(jcAgenda).node].type = "ReturnStatement"
            THEN JC_handleReturnStatement(jcTree, JcRuleState, Head(jcAgenda).node)
            ELSE JcRuleState)

InitCase ==
  /\ jcTree \in JcFiles
  /\ jcAgenda = JcCallbacks(jcTree, 1)
  /\ jcFunctionStack = <<>>
  /\ jcReports = <<>>
  /\ IdleNest
  /\ IdleJsx
  /\ IdleMut
  /\ IdlePure
  /\ IdleDate
  /\ IdleHooks
  /\ IdleEnv
  /\ IdleReact

NextCase ==
  \/ JC_FunctionDeclaration
  \/ JC_FunctionDeclaration_exit
  \/ JC_FunctionExpression
  \/ JC_FunctionExpression_exit
  \/ JC_ArrowFunctionExpression
  \/ JC_ArrowFunctionExpression_exit
  \/ JC_ReturnStatement

SpecCase == InitCase /\ [][NextCase]_vars

(***************************************************************************)
(* jsx-component-pascal-case: the claims.                                  *)
(***************************************************************************)
JcFunctionNodes ==
  {i \in 1..Len(jcTree) : jcTree[i].type \in FUNCTION_NODE_TYPES}

\* the exit callback of function f has been made
JcExited(f) ==
  \A k \in 1..Len(jcAgenda) : ~(jcAgenda[k].node = f /\ jcAgenda[k].exit)

JcReportsOn(f) == {k \in 1..Len(jcReports) : jcReports[k].node = f}

\* node j lies in the subtree of node top with no function on the way from
\* j up to top, top included
RECURSIVE JcOutsideNested(_, _)
JcOutsideNested(j, top) ==
  IF j = 0 \/ jcTree[j].type \in FUNCTION_NODE_TYPES THEN FALSE
  ELSE IF j = top THEN TRUE
  ELSE JcOutsideNested(jcTree[j].parent, top)

JcHoldsJsx(top) ==
  /\ top # 0
  /\ \E j \in 1..Len(jcTree) :
       jcTree[j].type \in JSX_NODE_TYPES /\ JcOutsideNested(j, top)

\* f returns JSX: a return argument of f, or its expression body, contains a
\* JSX element or fragment outside nested functions
JcReturnsJsx(f) ==
  \/ \E r \in 1..Len(jcTree) :
       /\ jcTree[r].type = "ReturnStatement"
       /\ getEnclosingFunction(jcTree, r) = f
       /\ JcHoldsJsx(IcChild(jcTree, r, "argument"))
  \/ /\ jcTree[f].type = "ArrowFunctionExpression"
     /\ jcTree[IcChild(jcTree, f, "body")].type # "BlockStatement"
     /\ JcHoldsJsx(IcChild(jcTree, f, "body"))

JcMisnamed(f) ==
  LET s == JcSpelling(JC_getFunctionName(jcTree, f)) IN
  /\ s # <<>>
  /\ s[1] \notin JcUpperCase
  /\ ~(Len(s) >= 5 /\ SubSeq(s, 1, 4) = <<"w", "i", "t", "h">> /\ s[5] \in JcUpperCase)

\* C20: a function is reported exactly once, at its exit, if and only if it
\* returns JSX, its resolved name is non-empty, the name does not start with
\* an uppercase letter and does not match "with" followed by an uppercase
\* letter; before its exit, and in every other case, it is not reported.
PascalCaseReport ==
  \A f \in JcFunctionNodes :
    Cardinality(JcReportsOn(f)) =
      (IF JcExited(f) /\ JcReturnsJsx(f) /\ JcMisnamed(f) THEN 1 ELSE 0)

\* the same, leaving out arrows whose expression body is itself a function
PascalCaseReportElsewhere ==
  \A f \in JcFunctionNodes :
    ~IC_isFunctionLike(jcTree, IcChild(jcTree, f, "body")) =>
      Cardinality(JcReportsOn(f)) =
        (IF JcExited(f) /\ JcReturnsJsx(f) /\ JcMisnamed(f) THEN 1 ELSE 0)

(***************************************************************************)
(* no-component-date-instantiation (src/src/react/useOnce.ts, lines 78 to  *)
(* 276).  The file being linted is a table of AST nodes as for             *)
(* no-inline-components.                                                   *)
(***************************************************************************)
NdSpelling(name) ==
  CASE name = "Inner" -> <<"I", "n", "n", "e", "r">>
    [] name = "Date" -> <<"D", "a", "t", "e">>
    [] OTHER -> JcSpelling(name)

createNewExpression(callee) ==
  IcTreeOf("NewExpression", "", "", <<<<"callee", callee>>>>)

NdDate == PfConst(createIdentifier("key"), createNewExpression(createIdentifier("Date")))

\* the bodies a function of the linted files can have
NdBlocks ==
  LET element == createReturnStatement(createJSXElement)
      nested(name, statements) ==
        PfConst(createIdentifier(name),
                createArrowFunctionExpression(createBlockStatement(statements)))
  IN
  { <<NdDate, element>>,
    <<NdDate, createReturnStatement(PfLiteral)>>,
    <<NdDate, createReturnStatement(JcFragment)>>,
    <<NdDate, createReturnStatement(JcTernary(createJSXElement))>>,
    <<NdDate, NdDate, element>>,
    <<element, NdDate>>,
    <<element>>,
    <<PfConst(createIdentifier("key"), createNewExpression(createIdentifier("Math"))),
      element>>,
    <<PfConst(createIdentifier("key"),
              createNewExpression(createMemberExpression("items", "Date"))),
      element>>,
    <<nested("inner", <<NdDate>>), element>>,
    <<nested("Inner", <<NdDate, element>>), element>>,
    <<nested("Inner", <<NdDate, element>>), NdDate, element>>,
    <<IcTreeOf("IfStatement", "", "",
               <<<<"test", createIdentifier("items")>>,
                 <<"consequent", createBlockStatement(<<NdDate>>)>>>>),
      element>> }

NdFewBlocks ==
  { <<NdDate, createReturnStatement(createJSXElement)>>,
    <<NdDate, createReturnStatement(PfLiteral)>> }

\* the statements of the linted files
NdStatements ==
  {NdDate}
  \cup UNION {
    {createFunctionDeclaration(n, b) : b \in NdBlocks}
    \cup {PfConst(createIdentifier(n),
                  createArrowFunctionExpression(createBlockStatement(b))) :
            b \in NdBlocks}
    \cup {PfConst(createIdentifier(n), createArrowFunctionExpression(e)) :
            e \in { IcTreeOf("JSXElement", "", "",
                             <<<<"children",
                                 createNewExpression(createIdentifier("Date"))>>>>),
                    createNewExpression(createIdentifier("Date")),
                    JcTernary(IcTreeOf("JSXElement", "", "",
                                <<<<"children",
                                    createNewExpression(createIdentifier("Date"))>>>>)) }}
    \cup UNION {
      { PfConst(createIdentifier(n), JcAnonymous(b)),
        PfConst(createIdentifier("inner"), createFunctionExpression(n, b)),
        createExpressionStatement(
          createAssignmentExpression("=", n,
            createArrowFunctionExpression(createBlockStatement(b)))),
        PfConst(createIdentifier(n),
                createCallExpression(createIdentifier("useCallback"),
                  <<createArrowFunctionExpression(createBlockStatement(b))>>)),
        createExpressionStatement(
          IcTreeOf("ObjectExpression", "", "", <<<<"properties",
            IcTreeOf("Property", "", "",
                     <<<<"key", createIdentifier(n)>>,
                       <<"value", createArrowFunctionExpression(
                                    createBlockStatement(b))>>>>)>>>>)),
        createExpressionStatement(
          JcMapped(createArrowFunctionExpression(createBlockStatement(b)))) } :
      b \in NdFewBlocks} :
    n \in {"MyComponent", "myComponent"}}

RECURSIVE NdStatementLists(_)
NdStatementLists(n) ==
  IF n = 0 THEN {<<>>}
  ELSE LET shorter == NdStatementLists(n - 1) IN
       shorter \cup {Append(l, s) : l \in {l \in shorter : Len(l) = n - 1},
                                    s \in NdStatements}

NdFiles ==
  {IcTreeOf("Program", "", "", IcList("body", l)) : l \in NdStatementLists(NdMaxStmts)}

(***************************************************************************)
(* The rule's helpers.                                                     *)
(***************************************************************************)
isComponentName(name) ==
  LET s == NdSpelling(name) IN Len(s) >= 1 /\ s[1] \in JcUpperCase

ND_getFunctionName(t, node) ==
  LET id == IcChild(t, node, "id")
      parent == t[node].parent
      nameOf(i) == IF i # 0 /\ t[i].type = "Identifier" THEN t[i].name ELSE ""
  IN
  IF t[node].type = "FunctionDeclaration" /\ id # 0 /\ t[id].type = "Identifier"
    THEN t[id].name
  ELSE IF /\ t[node].type \in {"FunctionExpression", "ArrowFunctionExpression"}
          /\ id # 0
          /\ t[id].type = "Identifier"
    THEN t[id].name
  ELSE IF parent = 0 THEN ""
  ELSE IF t[parent].type = "VariableDeclarator" THEN nameOf(IcChild(t, parent, "id"))
  ELSE IF t[parent].type = "AssignmentExpression"
    THEN nameOf(IcChild(t, parent, "left"))
  ELSE IF t[parent].type \in {"Property", "MethodDefinition"}
    THEN nameOf(IcChild(t, parent, "key"))
  ELSE ""

isJSXNode(t, node) ==
  IF node = 0 THEN FALSE
  ELSE t[node].type = "JSXElement" \/ t[node].type = "JSXFragment"

isDateInstantiation(t, node) ==
  LET callee == IcChild(t, node, "callee") IN
  t[callee].type = "Identifier" /\ t[callee].name = "Date"

(***************************************************************************)
(* createOnce(context): the callbacks, as functions of the rule's state    *)
(* [stack, reports].                                                       *)
(***************************************************************************)
NdRuleState == [stack |-> ndFunctionStack, reports |-> ndReports]

ND_enterFunction(t, st, node) ==
  LET body == IcChild(t, node, "body")
      fnCtx == [node |-> node,
                parent |-> IF st.stack = <<>> THEN 0 ELSE Last(st.stack).node,
                name |-> ND_getFunctionName(t, node),
                returnsJsx |->
                  /\ t[node].type = "ArrowFunctionExpression"
                  /\ body # 0
                  /\ t[body].type # "BlockStatement"
                  /\ isJSXNode(t, body),
                dateInstantiations |-> <<>>]
  IN [st EXCEPT !.stack = Append(@, fnCtx)]

ND_exitFunction(st) ==
  IF st.stack = <<>> THEN st
  ELSE LET fnCtx == Last(st.stack)
           popped == [st EXCEPT !.stack = Front(@)]
       IN IF ~fnCtx.returnsJsx THEN popped
          ELSE IF ~isComponentName(fnCtx.name) THEN popped
          ELSE [popped EXCEPT !.reports = @ \o
                 [k \in 1..Len(fnCtx.dateInstantiations) |->
                    [node |-> fnCtx.dateInstantiations[k],
                     message |->
                       <<"Avoid instantiating Date in the top scope of component '",
                         fnCtx.name,
                         "'. Date instances change on every render. Move it inside an effect, event handler, or use useMemo/useCallback.">>]]]

ND_handleReturnStatement(t, st, node) ==
  LET argument == IcChild(t, node, "argument") IN
  IF st.stack = <<>> THEN st
  ELSE IF argument = 0 THEN st
  ELSE IF isJSXNode(t, argument)
    THEN [st EXCEPT !.stack[Len(st.stack)].returnsJsx = TRUE]
  ELSE st

\* mutant of handleNewExpression: the Date is recorded with the outermost
\* open function
ND_handleNewExpression_Outermost(t, st, node) ==
  IF ~isDateInstantiation(t, node) THEN st
  ELSE IF st.stack = <<>> THEN st
  ELSE [st EXCEPT !.stack[1].dateInstantiations = Append(@, node)]

ND_handleNewExpression(t, st, node) ==
  IF ~isDateInstantiation(t, node) THEN st
  ELSE IF st.stack = <<>> THEN st
  ELSE [st EXCEPT !.stack[Len(st.stack)].dateInstantiations = Append(@, node)]

(***************************************************************************)
(* The host walks the file depth first and calls the visitor.              *)
(***************************************************************************)
RECURSIVE NdCallbacks(_, _)
NdCallbacks(t, i) ==
  LET RECURSIVE below(_)
      below(kids) == IF kids = <<>> THEN <<>>
                     ELSE NdCallbacks(t, Head(kids)) \o below(Tail(kids))
      registered == FUNCTION_NODE_TYPES \cup {"ReturnStatement", "NewExpression"}
  IN (IF t[i].type \in registered THEN <<[node |-> i, exit |-> FALSE]>> ELSE <<>>)
     \o below(IcChildren(t, i))
     \o (IF t[i].type \in FUNCTION_NODE_TYPES THEN <<[node |-> i, exit |-> TRUE]>> ELSE <<>>)

NdNext(types, exit) ==
  /\ ndAgenda # <<>>
  /\ ndTree[Head(ndAgenda).node].type \in types
  /\ Head(ndAgenda).exit = exit

NdDone(st) ==
  /\ ndAgenda' = Tail(ndAgenda)
  /\ ndFunctionStack' = st.stack
  /\ ndReports' = st.reports
  /\ UNCHANGED <<ndTree, otherThanDate>>

\* FunctionDeclaration, FunctionExpression, ArrowFunctionExpression
ND_Function ==
  /\ NdNext(FUNCTION_NODE_TYPES, FALSE)
  /\ NdDone(ND_enterFunction(ndTree, NdRuleState, Head(ndAgenda).node))

\* FunctionDeclaration:exit, FunctionExpression:exit,
\* ArrowFunctionExpression:exit
ND_Function_exit ==
  /\ NdNext(FUNCTION_NODE_TYPES, TRUE)
  /\ NdDone(ND_exitFunction(NdRuleState))

ND_ReturnStatement ==
  /\ NdNext({"ReturnStatement"}, FALSE)
  /\ NdDone(ND_handleReturnStatement(ndTree, NdRuleState, Head(ndAgenda).node))

ND_NewExpression ==
  /\ NdNext({"NewExpression"}, FALSE)
  /\ NdDone(ND_handleNewExpression(ndTree, NdRuleState, Head(ndAgenda).node))

InitDate ==
  /\ ndTree \in NdFiles
  /\ ndAgenda = NdCallbacks(ndTree, 1)
  /\ ndFunctionStack = <<>>
  /\ ndReports = <<>>
  /\ IdleNest
  /\ IdleJsx
  /\ IdleMut
  /\ IdlePure
  /\ IdleCase
  /\ IdleHooks
  /\ IdleEnv
  /\ IdleReact

NextDate ==
  \/ ND_Function
  \/ ND_Function_exit
  \/ ND_ReturnStatement
  \/ ND_NewExpression

SpecDate == InitDate /\ [][NextDate]_vars

(***************************************************************************)
(* no-component-date-instantiation: the claims.                            *)
(***************************************************************************)
NdNewExpressions == {i \in 1..Len(ndTree) : ndTree[i].type = "NewExpression"}

\* new Date(...): the callee is the identifier Date
NdIsNewDate(d) ==
  \E c \in 1..Len(ndTree) :
    /\ ndTree[c].parent = d /\ ndTree[c].key = "callee"
    /\ ndTree[c].type = "Identifier" /\ ndTree[c].name = "Date"

NdExited(f) ==
  \A k \in 1..Len(ndAgenda) : ~(ndAgenda[k].node = f /\ ndAgenda[k].exit)

NdReportsOn(d) == {k \in 1..Len(ndReports) : ndReports[k].node = d}

\* f returns a JSX element or fragment: from one of its own return
\* statements, or as its expression body
NdReturnsJsx(f) ==
  \E j \in 1..Len(ndTree) :
    /\ ndTree[j].type \in JSX_NODE_TYPES
    /\ \/ /\ ndTree[j].key = "argument"
          /\ ndTree[ndTree[j].parent].type = "ReturnStatement"
          /\ getEnclosingFunction(ndTree, j) = f
       \/ /\ ndTree[j].key = "body"
          /\ ndTree[j].parent = f
          /\ ndTree[f].type = "ArrowFunctionExpression"

NdIsComponent(f) ==
  LET s == NdSpelling(ND_getFunctionName(ndTree, f)) IN
  /\ f # 0
  /\ s # <<>>
  /\ s[1] \in JcUpperCase
  /\ NdReturnsJsx(f)

\* C21: a new Date(...) is reported exactly once, at the exit of the
\* innermost function enclosing it and naming that function, if and only if
\* that function has a PascalCase name and returns a JSX element or
\* fragment; it is never reported for a function further out, and other
\* new expressions are never reported.
DateReportedForOwnComponent ==
  \A d \in NdNewExpressions :
    LET f == getEnclosingFunction(ndTree, d) IN
    /\ Cardinality(NdReportsOn(d)) =
         (IF NdIsNewDate(d) /\ NdIsComponent(f) /\ NdExited(f) THEN 1 ELSE 0)
    /\ \A k \in NdReportsOn(d) :
         ndReports[k].message[2] = ND_getFunctionName(ndTree, f)

\* a component has exited that holds a Date of its own, reported, and a
\* nested component whose Date was reported for the nested one
DateReportedForOwnComponentWitness ==
  /\ ndAgenda = <<>>
  /\ \E d \in NdNewExpressions, e \in NdNewExpressions :
       /\ NdIsNewDate(d) /\ NdIsNewDate(e)
       /\ getEnclosingFunction(ndTree, getEnclosingFunction(ndTree, d)) =
            getEnclosingFunction(ndTree, e)
       /\ NdIsComponent(getEnclosingFunction(ndTree, e))
       /\ \E k \in NdReportsOn(d) : ndReports[k].message[2] = "Inner"
       /\ \E k \in NdReportsOn(e) : ndReports[k].message[2] \in {"MyComponent"}

(***************************************************************************)
(* The React hooks: useStableCallback (src/src/oxlint-plugins/             *)
(* no-top-level-let.js, lines 525 to 539), useOnce (src/src/react/         *)
(* useOnce.ts), useLocalOnce (src/src/react/useLocalOnce.ts) and the two   *)
(* versions of useOnMount (src/src/react/useOnMount.ts and                 *)
(* src/unnamed/part_013).  React is the host: it calls the component       *)
(* function, keeps the hook cells of the instance between calls, and runs  *)
(* a scheduled effect after the render that scheduled it and before the    *)
(* next render.                                                            *)
(***************************************************************************)
HkHooks == {"useOnce", "useLocalOnce", "useOnMount", "useOnMountIsRun"}

\* the values the component passes as condition, and the callbacks
HkConditions == {"false", "null", "true", "user"}
HkCallbacks == {1, 2}

\* Boolean(condition)
Boolean(condition) == condition \in {"true", "user"}

\* the hook cells of an instance that has not rendered yet
HkFresh ==
  [mounted |-> FALSE, hasRunRef |-> FALSE, callbackRef |-> 0, memo |-> 0, deps |-> <<>>]

\* useEffect(effect, deps): React schedules the effect on the first render
\* and whenever a dependency differs from the previous render's
useEffect(cells, deps) == ~cells.mounted \/ cells.deps # deps

\* mutant of useStableCallback: every render returns the function it has
\* just created
useStableCallback_NewEachRender(cells, callback, closure) ==
  [cells |-> [cells EXCEPT !.callbackRef = callback, !.memo = closure],
   fn |-> closure]

\* useStableCallback(callback); closure is the function this render hands to
\* useCallback.  callbackRef.current is set on every render, useCallback
\* with no dependencies keeps the function of the first render.
useStableCallback(cells, callback, closure) ==
  LET memo == IF cells.mounted THEN cells.memo ELSE closure IN
  [cells |-> [cells EXCEPT !.callbackRef = callback, !.memo = memo],
   fn |-> memo]

\* calling the function useStableCallback returned: callbackRef.current(...)
HkInvoke(cells) == <<cells.callbackRef>>

\* mutant of the effect of useOnce: hasRunRef is not consulted
useOnce_effect_EveryTime(cells, captured) ==
  IF Boolean(captured.condition)
  THEN [cells |-> [cells EXCEPT !.hasRunRef = TRUE], calls |-> HkInvoke(cells)]
  ELSE [cells |-> cells, calls |-> <<>>]

\* the effect of useOnce, with the condition its render captured
useOnce_effect(cells, captured) ==
  IF Boolean(captured.condition) /\ ~cells.hasRunRef
  THEN [cells |-> [cells EXCEPT !.hasRunRef = TRUE], calls |-> HkInvoke(cells)]
  ELSE [cells |-> cells, calls |-> <<>>]

\* the body of useOnce: the cells, the effect scheduled, the calls made
useOnce(cells, condition, callback, closure) ==
  LET s == useStableCallback(cells, callback, closure)
      deps == <<condition, s.fn>>
  IN [cells |-> [s.cells EXCEPT !.deps = deps],
      effects |-> IF useEffect(cells, deps) THEN <<[condition |-> condition]>> ELSE <<>>,
      calls |-> <<>>]

\* mutant of useLocalOnce: hasRunRef is not consulted
useLocalOnce_EveryTime(cells, condition, callback, closure) ==
  LET s == useStableCallback(cells, callback, closure) IN
  [cells |-> [s.cells EXCEPT !.hasRunRef = @ \/ Boolean(condition)],
   effects |-> <<>>,
   calls |-> IF Boolean(condition) THEN HkInvoke(s.cells) ELSE <<>>]

useLocalOnce(cells, condition, callback, closure) ==
  LET s == useStableCallback(cells, callback, closure)
      run == Boolean(condition) /\ ~s.cells.hasRunRef
  IN [cells |-> [s.cells EXCEPT !.hasRunRef = @ \/ run],
      effects |-> <<>>,
      calls |-> IF run THEN HkInvoke(s.cells) ELSE <<>>]

\* useOnMount of src/src/react/useOnMount.ts and its effect
useOnMount(cells, condition, callback, closure) ==
  LET s == useStableCallback(cells, callback, closure)
      deps == <<s.fn>>
  IN [cells |-> [s.cells EXCEPT !.deps = deps],
      effects |-> IF useEffect(cells, deps) THEN <<[condition |-> condition]>> ELSE <<>>,
      calls |-> <<>>]

useOnMount_effect(cells, captured) == [cells |-> cells, calls |-> HkInvoke(cells)]

\* the effect of useOnMount of src/unnamed/part_013, which keeps isRun in a
\* ref (the cell hasRunRef); its body is that of the other version
useOnMountIsRun_effect(cells, captured) ==
  IF ~cells.hasRunRef
  THEN [cells |-> [cells EXCEPT !.hasRunRef = TRUE], calls |-> HkInvoke(cells)]
  ELSE [cells |-> cells, calls |-> <<>>]

(***************************************************************************)
(* React calls the component, runs its effect, unmounts it.                *)
(***************************************************************************)
HK_Render ==
  \E condition \in (IF hkHook \in {"useOnce", "useLocalOnce"} THEN HkConditions
                    ELSE {"none"}),
     callback \in HkCallbacks :
    /\ hkPending = <<>>
    /\ hkRenders < HkMaxRenders
    /\ LET closure == hkRenders + 1
           r == CASE hkHook = "useOnce" -> useOnce(hkCells, condition, callback, closure)
                  [] hkHook = "useLocalOnce" ->
                       useLocalOnce(hkCells, condition, callback, closure)
                  [] OTHER -> useOnMount(hkCells, condition, callback, closure)
       IN /\ hkCells' = [r.cells EXCEPT !.mounted = TRUE]
          /\ hkPending' = r.effects
          /\ hkTrace' = Append(hkTrace, [kind |-> "render", condition |-> condition,
                                         callback |-> callback, calls |-> r.calls])
    /\ hkRenders' = hkRenders + 1
    /\ UNCHANGED <<hkHook, otherThanHooks>>

HK_RunEffect ==
  /\ hkPending # <<>>
  /\ LET captured == Head(hkPending)
         e == CASE hkHook = "useOnce" -> useOnce_effect(hkCells, captured)
                [] hkHook = "useOnMount" -> useOnMount_effect(hkCells, captured)
                [] OTHER -> useOnMountIsRun_effect(hkCells, captured)
     IN /\ hkCells' = e.cells
        /\ hkTrace' = Append(hkTrace, [kind |-> "effect", condition |-> captured.condition,
                                       callback |-> 0, calls |-> e.calls])
  /\ hkPending' = Tail(hkPending)
  /\ UNCHANGED <<hkHook, hkRenders, otherThanHooks>>

\* the instance is unmounted; the next render is that of a new instance
HK_Unmount ==
  /\ hkCells.mounted
  /\ hkPending = <<>>
  /\ hkCells' = HkFresh
  /\ hkTrace' = <<>>
  /\ UNCHANGED <<hkHook, hkPending, hkRenders, otherThanHooks>>

InitHooks ==
  /\ hkHook \in HkHooks
  /\ hkCells = HkFresh
  /\ hkPending = <<>>
  /\ hkRenders = 0
  /\ hkTrace = <<>>
  /\ IdleNest
  /\ IdleJsx
  /\ IdleMut
  /\ IdlePure
  /\ IdleCase
  /\ IdleDate
  /\ IdleEnv
  /\ IdleReact

NextHooks ==
  \/ HK_Render
  \/ HK_RunEffect
  \/ HK_Unmount

SpecHooks == InitHooks /\ [][NextHooks]_vars

(***************************************************************************)
(* The hooks: the claims.                                                  *)
(***************************************************************************)
\* the renders and effect runs of the instance that invoked the callback
HkCalling == {k \in 1..Len(hkTrace) : hkTrace[k].calls # <<>>}

HkEvents(kind) == {k \in 1..Len(hkTrace) : hkTrace[k].kind = kind}

HkTruthy(kind) == {k \in HkEvents(kind) : Boolean(hkTrace[k].condition)}

HkAtMostOnce ==
  /\ Cardinality(HkCalling) <= 1
  /\ \A k \in HkCalling : Len(hkTrace[k].calls) = 1

\* C22: useOnce invokes the callback at most once per component instance,
\* in the first effect run whose condition is truthy, never during a render
\* and never while the condition has only been falsy.
OnceInFirstTruthyEffect ==
  hkHook = "useOnce" =>
    /\ HkAtMostOnce
    /\ \A k \in HkCalling :
         /\ k \in HkTruthy("effect")
         /\ \A j \in HkTruthy("effect") : k <= j
    /\ HkTruthy("effect") # {} => HkCalling # {}
    /\ HkTruthy("render") = {} => HkCalling = {}

\* falsy, truthy and again truthy with another value and another callback:
\* three effect runs, the callback invoked in the second only
OnceInFirstTruthyEffectWitness ==
  /\ hkHook = "useOnce"
  /\ Len(hkTrace) = 6
  /\ \A k \in {2, 4, 6} : hkTrace[k].kind = "effect"
  /\ ~Boolean(hkTrace[2].condition)
  /\ hkTrace[4].condition = "true" /\ hkTrace[6].condition = "user"
  /\ hkTrace[3].callback # hkTrace[5].callback
  /\ HkCalling = {4}

\* C23: useLocalOnce invokes the callback at most once per component
\* instance, inside the first render whose condition is truthy, and never
\* for falsy conditions.
LocalOnceInFirstTruthyRender ==
  hkHook = "useLocalOnce" =>
    /\ HkAtMostOnce
    /\ hkPending = <<>>
    /\ HkEvents("effect") = {}
    /\ \A k \in HkCalling :
         /\ k \in HkTruthy("render")
         /\ \A j \in HkTruthy("render") : k <= j
    /\ HkTruthy("render") # {} => HkCalling # {}

LocalOnceInFirstTruthyRenderWitness ==
  /\ hkHook = "useLocalOnce"
  /\ Len(hkTrace) = 3
  /\ ~Boolean(hkTrace[1].condition)
  /\ hkTrace[2].condition = "user" /\ hkTrace[3].condition = "true"
  /\ hkTrace[2].callback # hkTrace[3].callback
  /\ HkCalling = {2}
  /\ hkTrace[2].calls = <<hkTrace[2].callback>>

\* C24: useOnMount invokes the callback exactly once per mounted component
\* instance, in the effect run that follows the first render and not during
\* a render, and not again on a rerender, whichever callback is passed.
OnMountExactlyOnce ==
  hkHook \in {"useOnMount", "useOnMountIsRun"} =>
    /\ HkAtMostOnce
    /\ \A k \in HkCalling : hkTrace[k].kind = "effect" /\ k = 2
    /\ hkTrace # <<>> => hkTrace[1].kind = "render"
    /\ hkCells.mounted /\ hkPending = <<>> => HkCalling = {2}
    /\ HkEvents("effect") \subseteq {2}

\* mounted, then rendered twice more with another callback: one call
OnMountExactlyOnceWitness ==
  /\ hkHook = "useOnMount"
  /\ Len(hkTrace) = 4
  /\ hkTrace[1].callback = 1 /\ hkTrace[3].callback = 2 /\ hkTrace[4].callback = 2
  /\ HkCalling = {2}
  /\ hkTrace[2].calls = <<1>>


(***************************************************************************)
(* createEnv (src/src/env.ts).  A schema is the sequence of its entries in *)
(* property order, as Object.entries gives them; each entry pairs a key    *)
(* with a Valibot schema.  A JavaScript value is a record [type, value];   *)
(* a property the env object does not have reads as undefined.  An object *)
(* or a Map is the sequence of its entries [key, value] in insertion       *)
(* order.                                                                  *)
(***************************************************************************)
CeMaxKeys == 2

PUBLIC_ENV_PREFIX == "PUBLIC_"

CeNames == {"PUBLIC_API_URL", "PUBLIC", "DATABASE_URL", "DB_PUBLIC_URL"}

\* the characters of the strings the model handles
CeSpelling(s) ==
  CASE s = "PUBLIC_API_URL" ->
         <<"P", "U", "B", "L", "I", "C", "_", "A", "P", "I", "_", "U", "R", "L">>
    [] s = "PUBLIC" -> <<"P", "U", "B", "L", "I", "C">>
    [] s = "DATABASE_URL" ->
         <<"D", "A", "T", "A", "B", "A", "S", "E", "_", "U", "R", "L">>
    [] s = "DB_PUBLIC_URL" ->
         <<"D", "B", "_", "P", "U", "B", "L", "I", "C", "_", "U", "R", "L">>
    [] s = "PUBLIC_" -> <<"P", "U", "B", "L", "I", "C", "_">>

CeUndefined == [type |-> "undefined", value |-> ""]
CeNull == [type |-> "null", value |-> ""]
CeValues == {CeUndefined, CeNull,
             [type |-> "string", value |-> "3000"],
             [type |-> "number", value |-> "3000"]}

\* v.optional(v.string()), v.nullable(v.string()) and
\* v.pipe(v.string(), v.transform((s) => Number.parseInt(s)))
CeSchemas == {"optional_string", "nullable_string", "string_parseInt"}

\* v.safeParse(schema, value): an input that fails is the output
safeParse(schema, value) ==
  CASE schema = "optional_string" /\ value.type = "undefined" ->
         [success |-> TRUE, output |-> CeUndefined]
    [] schema = "nullable_string" /\ value.type = "null" ->
         [success |-> TRUE, output |-> CeNull]
    [] schema = "string_parseInt" /\ value.type = "string" ->
         [success |-> TRUE, output |-> [type |-> "number", value |-> value.value]]
    [] schema # "string_parseInt" /\ value.type = "string" ->
         [success |-> TRUE, output |-> value]
    [] OTHER -> [success |-> FALSE, output |-> value]

\* String.prototype.startsWith
startsWith_Anywhere(string, searchString) ==
  LET s == CeSpelling(string)
      p == CeSpelling(searchString)
  IN \E at \in 1..Len(s) :
       /\ at + Len(p) - 1 <= Len(s)
       /\ SubSeq(s, at, at + Len(p) - 1) = p

startsWith(string, searchString) ==
  LET s == CeSpelling(string)
      p == CeSpelling(searchString)
  IN /\ Len(p) <= Len(s)
     /\ \A i \in 1..Len(p) : s[i] = p[i]

\* value ?? null
CE_nullish_Keeps(value) == value

CE_nullish(value) ==
  IF value.type \in {"undefined", "null"} THEN CeNull ELSE value

\* Map.prototype.set
CeMapSet(map, key, value) ==
  IF \E i \in 1..Len(map) : map[i].key = key
  THEN [i \in 1..Len(map) |->
          IF map[i].key = key THEN [key |-> key, value |-> value] ELSE map[i]]
  ELSE Append(map, [key |-> key, value |-> value])

\* Object.fromEntries
RECURSIVE Object_fromEntries(_)
Object_fromEntries(entries) ==
  IF entries = <<>> THEN <<>>
  ELSE LET last == entries[Len(entries)]
       IN CeMapSet(Object_fromEntries(SubSeq(entries, 1, Len(entries) - 1)),
                   last.key, last.value)

\* the loop over the schema's entries: lines 25-33
RECURSIVE CE_validate(_, _, _)
CE_validate(pairs, env, acc) ==
  IF pairs = <<>> THEN acc
  ELSE LET key == Head(pairs).key
           result == safeParse(Head(pairs).value, CE_nullish(env[key]))
       IN CE_validate(Tail(pairs), env,
            [serverEnv |-> CeMapSet(acc.serverEnv, key, result.output),
             invalidKeys |-> IF result.success THEN acc.invalidKeys
                             ELSE Append(acc.invalidKeys, key)])

\* invalidKeys.map((e) => `"${e}"`).join(", "), as the pieces of the string
RECURSIVE CeQuotedJoin(_)
CeQuotedJoin(keys) ==
  IF keys = <<>> THEN <<>>
  ELSE <<"\"", Head(keys), "\"">>
         \o (IF Tail(keys) = <<>> THEN <<>> ELSE <<", ">>)
         \o CeQuotedJoin(Tail(keys))

CeMessage(invalidKeys) ==
  <<"Invalid environment variable(s): ">> \o CeQuotedJoin(invalidKeys)

\* createEnv(args): what it logs, the exit codes it passes to process.exit
\* and what it returns.  process.exit ends the process unless the caller
\* replaced it (exitReturns), as the tests do.
createEnv(args, exitReturns) ==
  LET checked == CE_validate(args.schema, args.env,
                             [serverEnv |-> <<>>, invalidKeys |-> <<>>])
      failed == Len(checked.invalidKeys) > 0
      clientEnv == Object_fromEntries(
                     SelectSeq(checked.serverEnv,
                               LAMBDA e : startsWith(e.key, PUBLIC_ENV_PREFIX)))
  IN [logs |-> IF failed THEN <<CeMessage(checked.invalidKeys)>> ELSE <<>>,
      exits |-> IF failed THEN <<1>> ELSE <<>>,
      returned |-> IF failed /\ ~exitReturns THEN <<>>
                   ELSE <<[client |-> clientEnv,
                           server |-> Object_fromEntries(checked.serverEnv)]>>]

\* the schemas of the corpus: up to CeMaxKeys entries with distinct keys
CeKeyLists ==
  {ks \in UNION {[1..n -> CeNames] : n \in 0..CeMaxKeys} :
     \A i, j \in 1..Len(ks) : i # j => ks[i] # ks[j]}

CeSchemaLists ==
  UNION {{[i \in 1..Len(ks) |-> [key |-> ks[i], value |-> kinds[i]]] :
            kinds \in [1..Len(ks) -> CeSchemas]} : ks \in CeKeyLists}

\* the env objects for a schema: any value under each key of the schema;
\* the other names all absent or all present
CeEnvs(schema) ==
  LET keys == {schema[i].key : i \in 1..Len(schema)}
  IN {[n \in CeNames |-> IF n \in keys THEN own[n] ELSE extra] :
        own \in [keys -> CeValues],
        extra \in {CeUndefined, [type |-> "string", value |-> "3000"]}}

CE_createEnv ==
  /\ ceArgs = <<>>
  /\ \E schema \in CeSchemaLists, exitReturns \in BOOLEAN :
    \E env \in CeEnvs(schema) :
      /\ LET args == [schema |-> schema, env |-> env]
             r == createEnv(args, exitReturns)
         IN /\ ceArgs' = <<args>>
            /\ ceLogs' = ceLogs \o r.logs
            /\ ceExits' = ceExits \o r.exits
            /\ ceResult' = r.returned
      /\ UNCHANGED otherThanEnv

InitEnv ==
  /\ ceArgs = <<>>
  /\ ceLogs = <<>>
  /\ ceExits = <<>>
  /\ ceResult = <<>>
  /\ IdleNest
  /\ IdleJsx
  /\ IdleMut
  /\ IdlePure
  /\ IdleCase
  /\ IdleDate
  /\ IdleHooks
  /\ IdleReact

NextEnv == CE_createEnv

SpecEnv == InitEnv /\ [][NextEnv]_vars

\* ---- what the claims about createEnv speak of ----
CeKeysOf(object) == {object[i].key : i \in 1..Len(object)}

CeGet(object, key) ==
  LET i == CHOOSE i \in 1..Len(object) : object[i].key = key
  IN object[i].value

\* the value createEnv validates under a schema key: a missing variable is
\* validated as null
CeGiven(key) ==
  LET raw == ceArgs[1].env[key]
  IN IF raw.type = "undefined" THEN CeNull ELSE raw

\* the schema entries that fail validation, in schema order
CeInvalid ==
  SelectSeq(ceArgs[1].schema,
            LAMBDA e : ~safeParse(e.value, CeGiven(e.key)).success)

CeSchemaKeys == {ceArgs[1].schema[i].key : i \in 1..Len(ceArgs[1].schema)}

CeSchemaOf(key) ==
  LET i == CHOOSE i \in 1..Len(ceArgs[1].schema) : ceArgs[1].schema[i].key = key
  IN ceArgs[1].schema[i].value

CeHasPublicPrefix(key) ==
  /\ Len(CeSpelling(key)) >= 7
  /\ SubSeq(CeSpelling(key), 1, 7) = <<"P", "U", "B", "L", "I", "C", "_">>

\* C25: when every schema key validates, `server` holds exactly the schema
\* keys, each once, with the output of its validation, and `client` holds
\* exactly the schema keys that start with PUBLIC_, with the values `server`
\* has for them; no other key is in `client`.
ClientIsPublicPartOfServer ==
  (ceArgs # <<>> /\ ceResult # <<>> /\ CeInvalid = <<>>) =>
    LET client == ceResult[1].client
        server == ceResult[1].server
    IN /\ CeKeysOf(server) = CeSchemaKeys
       /\ Len(server) = Cardinality(CeSchemaKeys)
       /\ \A k \in CeSchemaKeys :
            CeGet(server, k) = safeParse(CeSchemaOf(k), CeGiven(k)).output
       /\ CeKeysOf(client) = {k \in CeSchemaKeys : CeHasPublicPrefix(k)}
       /\ Len(client) = Cardinality(CeKeysOf(client))
       /\ \A k \in CeKeysOf(client) : CeGet(client, k) = CeGet(server, k)

\* every key validated; one is public and parsed into another value, one
\* holds PUBLIC_ elsewhere than at its start, and the env has more names
ClientIsPublicPartOfServerWitness ==
  /\ ceArgs # <<>>
  /\ ceResult # <<>>
  /\ CeInvalid = <<>>
  /\ CeSchemaKeys = {"PUBLIC_API_URL", "DB_PUBLIC_URL"}
  /\ CeKeysOf(ceResult[1].client) = {"PUBLIC_API_URL"}
  /\ CeGet(ceResult[1].client, "PUBLIC_API_URL") = [type |-> "number", value |-> "3000"]
  /\ ceArgs[1].env["PUBLIC_API_URL"].type = "string"
  /\ ceArgs[1].env["DATABASE_URL"].type = "string"

RnMaxDepth == 2

typeContextTypes ==
  {"TSTypeReference", "TSTypeAnnotation", "TSTypeParameterInstantiation",
   "TSInterfaceHeritage", "TSTypeQuery", "TSTypeAliasDeclaration",
   "TSInterfaceDeclaration", "TSTypeLiteral", "TSPropertySignature",
   "TSIndexSignature", "TSMethodSignature", "TSCallSignatureDeclaration",
   "TSConstructSignatureDeclaration", "TSExpressionWithTypeArguments"}

\* the node types an ancestor of the corpus has
RnTypes ==
  typeContextTypes
    \cup {"ExpressionStatement", "VariableDeclarator", "CallExpression",
          "ReturnStatement"}
    \cup {"Program", "TSAsExpression", "MemberExpression"}

RnPaths == UNION {[1..n -> RnTypes] : n \in 0..RnMaxDepth}

\* the member expressions of the tests, and member expressions
\* with a computed property or with another member expression as object
RnMemberExpression(objectName, propertyName) ==
  [type |-> "MemberExpression",
   object |-> [type |-> "Identifier", name |-> objectName],
   property |-> [type |-> "Identifier", name |-> propertyName]]

RnNodes ==
  {RnMemberExpression("React", "useState"),
   RnMemberExpression("SomeOther", "useState"),
   [type |-> "MemberExpression",
    object |-> [type |-> "Identifier", name |-> "React"],
    property |-> [type |-> "Literal", name |-> ""]],
   [type |-> "MemberExpression",
    object |-> [type |-> "MemberExpression", name |-> "React"],
    property |-> [type |-> "Identifier", name |-> "useState"]]}

isReactNamespaceAccess(node) ==
  IF node.type # "MemberExpression" THEN FALSE
  ELSE IF node.object.type # "Identifier" \/ node.object.name # "React" THEN FALSE
  ELSE TRUE

\* one call of checkParent on a node of the given type: it returns true,
\* returns false, or returns what checkParent(current.parent) returns
checkParent_NoBoundary(type) ==
  IF type \in typeContextTypes THEN "true" ELSE "parent"

checkParent(type) ==
  IF type \in typeContextTypes THEN "true"
  ELSE IF \/ type = "ExpressionStatement"
          \/ type = "VariableDeclarator"
          \/ type = "CallExpression"
          \/ type = "ReturnStatement"
       THEN "false"
       ELSE "parent"

\* the report of the MemberExpression callback, its message in pieces
RnReport(node) ==
  LET propertyName == IF node.property.type = "Identifier" THEN node.property.name
                      ELSE "property"
  IN [node |-> node,
      message |-> <<"Avoid using 'React.", propertyName, "'. Import '", propertyName,
                    "' directly from 'react' instead (e.g., import { ",
                    propertyName, " } from 'react').">>]

\* MemberExpression(node) up to its call of isTypeContext(node), which
\* calls checkParent(node.parent)
RN_MemberExpression ==
  /\ rnPhase = "called"
  /\ IF ~isReactNamespaceAccess(rnNode[1])
     THEN /\ rnPhase' = "done"
          /\ UNCHANGED rnCursor
     ELSE /\ rnPhase' = "walking"
          /\ rnCursor' = Len(rnPath)
  /\ UNCHANGED <<rnPath, rnNode, rnVisited, rnReports, otherThanReact>>

\* one call checkParent(current), and the rest of MemberExpression when the
\* call settles what isTypeContext returns
RN_checkParent ==
  /\ rnPhase = "walking"
  /\ rnVisited' = Append(rnVisited, rnCursor)
  /\ LET answer == IF rnCursor = 0 THEN "false" ELSE checkParent(rnPath[rnCursor])
     IN CASE answer = "parent" ->
               /\ rnCursor' = rnCursor - 1
               /\ UNCHANGED <<rnPhase, rnReports>>
          [] answer = "true" ->
               /\ rnPhase' = "done"
               /\ UNCHANGED <<rnCursor, rnReports>>
          [] answer = "false" ->
               /\ rnPhase' = "done"
               /\ rnReports' = Append(rnReports, RnReport(rnNode[1]))
               /\ UNCHANGED rnCursor
  /\ UNCHANGED <<rnPath, rnNode, otherThanReact>>

InitReact ==
  /\ rnPath \in RnPaths
  /\ rnNode \in {<<n>> : n \in RnNodes}
  /\ rnCursor = 0
  /\ rnVisited = <<>>
  /\ rnPhase = "called"
  /\ rnReports = <<>>
  /\ IdleNest
  /\ IdleJsx
  /\ IdleMut
  /\ IdlePure
  /\ IdleCase
  /\ IdleDate
  /\ IdleHooks
  /\ IdleEnv

NextReact ==
  \/ RN_MemberExpression
  \/ RN_checkParent

\* the callback is sequential code: it keeps running until it returns
SpecReact == InitReact /\ [][NextReact]_vars /\ WF_vars(NextReact)

\* ---- what the claim about no-react-namespace speaks of ----
\* walking up from the member expression, a type-context node comes before
\* any statement or expression boundary and before the root is left
RnTypeContextFirst ==
  \E i \in 1..Len(rnPath) :
    /\ rnPath[i] \in typeContextTypes
    /\ \A j \in (i + 1)..Len(rnPath) :
         rnPath[j] \notin {"ExpressionStatement", "VariableDeclarator",
                           "CallExpression", "ReturnStatement"}

RnOnReact ==
  /\ rnNode[1].object.type = "Identifier"
  /\ rnNode[1].object.name = "React"

\* C27: a member access on the identifier React is reported, once, unless a
\* type-context ancestor comes before any ExpressionStatement,
\* VariableDeclarator, CallExpression or ReturnStatement ancestor and before
\* the root is left; the walk is called on the parent, then on each next
\* ancestor in turn, never twice on one, at most once past the root, and the
\* callback returns.
ReactMemberReported ==
  /\ [](/\ rnPhase = "done" /\ rnNode # <<>> =>
             /\ Len(rnReports) = (IF RnOnReact /\ ~RnTypeContextFirst THEN 1 ELSE 0)
             /\ \A k \in 1..Len(rnReports) : rnReports[k].node = rnNode[1]
        /\ rnPhase # "done" => rnReports = <<>>
        /\ Len(rnVisited) <= Len(rnPath) + 1
        /\ \A k \in 1..Len(rnVisited) : rnVisited[k] = Len(rnPath) + 1 - k)
  /\ <>(rnPhase = "done")

\* a React member access was reported although a type-context node is among
\* its ancestors: a call expression lies between them
ReactMemberReportedWitness ==
  /\ rnPhase = "done"
  /\ Len(rnReports) = 1
  /\ Len(rnPath) = 2
  /\ rnPath[1] \in typeContextTypes
  /\ rnPath[2] = "CallExpression"
  /\ rnVisited = <<2>>

\* a React member access under a type annotation went unreported after the
\* walk passed an ancestor that is neither a boundary nor a type context
ReactMemberAllowedReached ==
  /\ rnPhase = "done"
  /\ rnNode # <<>>
  /\ RnOnReact
  /\ rnReports = <<>>
  /\ rnVisited = <<2, 1>>


(***************************************************************************)
(* no-inline-components on function bodies.  A second corpus for the rule: *)
(* the file is one function Outer whose body is any list of at most        *)
(* IbMaxStmts statements, among them functions that hold a function of     *)
(* their own, stores that copy a name and a return of a conditional        *)
(* expression.  The host and the callbacks are those of SpecJsx.           *)
(***************************************************************************)
IbMaxStmts == 3

createConditionalExpression(test, consequent, alternate) ==
  IcTreeOf("ConditionalExpression", "", "",
           <<<<"test", test>>, <<"consequent", consequent>>,
             <<"alternate", alternate>>>>)

IbStatements ==
  LET jsx == createJSXElement
      arrow == createArrowFunctionExpression(jsx)
      innermost == createVariableDeclaration("Innermost", arrow)
  IN { \* return <div />;
       createReturnStatement(jsx),
       \* const view = <div />;   view = <div />;   view.push(<div />);
       createVariableDeclaration("view", jsx),
       createExpressionStatement(createAssignmentExpression("=", "view", jsx)),
       createExpressionStatement(
         createCallExpression(createMemberExpression("view", "push"), <<jsx>>)),
       \* const copy = view;   copy = view;
       createVariableDeclaration("copy", createIdentifier("view")),
       createExpressionStatement(
         createAssignmentExpression("=", "copy", createIdentifier("view"))),
       \* const Inner = () => <div />;
       createVariableDeclaration("Inner", arrow),
       \* function Middle() { const Innermost = () => <div />; }
       createFunctionDeclaration("Middle", <<innermost>>),
       \* const Panel = function Panel() {
       \*   const Innermost = () => <div />; return <div />; };
       createVariableDeclaration("Panel",
         createFunctionExpression("Panel", <<innermost, createReturnStatement(jsx)>>)),
       \* return flag ? () => <div /> : fallback;
       createReturnStatement(
         createConditionalExpression(createIdentifier("flag"), arrow,
                                     createIdentifier("fallback"))) }

IbBodies == UNION {[1..n -> IbStatements] : n \in 0..IbMaxStmts}

InitJsxBody ==
  /\ \E body \in IbBodies :
       icTree = IcFile(<<createFunctionDeclaration("Outer", body)>>)
  /\ icAgenda = IcCallbacks(icTree, 1)
  /\ icFrames = <<>>
  /\ functionStack = <<>>
  /\ icReports = <<>>
  /\ IdleNest
  /\ IdleMut
  /\ IdlePure
  /\ IdleCase
  /\ IdleDate
  /\ IdleHooks
  /\ IdleEnv
  /\ IdleReact

SpecJsxBody == InitJsxBody /\ [][NextJsx]_vars


\* ---- what the claims checked on function bodies speak of ----
\* the reports this step adds, in the order it adds them
IcAdded == SubSeq(icReports', Len(icReports) + 1, Len(icReports'))

\* the callback that records the store a report on node n is about
IcStoreAt(n) == (CHOOSE s \in IcStores : s.node = n).at

\* C31: the exit callback of a function emits the diagnostics of the stores
\* recorded in the function's frame, in the order the stores were recorded,
\* and after all of them the diagnostics of the nested functions queued in
\* the frame, in the order they were queued, wherever in the body the nested
\* functions stand.
StoresBeforeNested ==
  [][(icAgenda # <<>> /\ Head(icAgenda).exit /\ IcAdded # <<>>
        /\ ~IcIsIIFEReport(IcAdded[1])) =>
       LET f == Head(icAgenda).node IN
       /\ \A a \in 1..Len(IcAdded) :
            \/ /\ IcIsStoreReport(IcAdded[a])
               /\ \E s \in IcStoresOf(f) : s.node = IcAdded[a].node
            \/ /\ IcIsNestedReport(IcAdded[a])
               /\ IcOwner(IcAdded[a].node) = f
       /\ \A s \in IcStoresOf(f) : \E a \in 1..Len(IcAdded) : IcAdded[a].node = s.node
       /\ \A a, b \in 1..Len(IcAdded) :
            a < b =>
              /\ ~(IcIsNestedReport(IcAdded[a]) /\ IcIsStoreReport(IcAdded[b]))
              /\ IcIsStoreReport(IcAdded[a]) /\ IcIsStoreReport(IcAdded[b])
                   => IcStoreAt(IcAdded[a].node) < IcStoreAt(IcAdded[b].node)
              /\ IcIsNestedReport(IcAdded[a]) /\ IcIsNestedReport(IcAdded[b])
                   => IcAdded[a].node < IcAdded[b].node]_vars

\* Outer has exited with a store diagnostic followed by the diagnostic of a
\* nested function that stands before the store in the body
StoresBeforeNestedWitness ==
  /\ icAgenda = <<>>
  /\ \E k \in 1..Len(icReports) :
       \E j \in (k + 1)..Len(icReports) :
         /\ IcIsStoreReport(icReports[k])
         /\ IcIsNestedReport(icReports[j])
         /\ IcOwner(icReports[k].node) = IcOwner(icReports[j].node)
         /\ icReports[j].node < icReports[k].node


\* C32: a callback writes the accumulators of a frame only while the frame is
\* the top of the stack.  The one exception is the exit callback of a nested
\* function, which appends the function to the nestedJsxChildren of its
\* parent's frame and changes nothing else there; that frame is the top of
\* the stack once the exiting frame is popped.  A frame is never dropped from
\* memory while the file is linted, and a new one starts as the top.
FramesWrittenAtTop ==
  [][/\ Len(icFrames') >= Len(icFrames)
     /\ \A i \in 1..Len(icFrames') :
          i > Len(icFrames) =>
            /\ ~Head(icAgenda).exit
            /\ functionStack' = Append(functionStack, i)
            /\ icFrames'[i].node = Head(icAgenda).node
     /\ \A i \in 1..Len(icFrames) :
          icFrames'[i] # icFrames[i] =>
            IF Head(icAgenda).exit
            THEN LET child == icFrames[Last(functionStack)] IN
                 /\ child.node = Head(icAgenda).node
                 /\ functionStack' = Front(functionStack)
                 /\ functionStack' # <<>>
                 /\ i = Last(functionStack')
                 /\ i = child.parent
                 /\ icFrames'[i] =
                      [icFrames[i] EXCEPT !.nestedJsxChildren =
                         Append(@, [node |-> child.node, name |-> child.name])]
            ELSE /\ functionStack # <<>>
                 /\ i = Last(functionStack)
                 /\ functionStack' = functionStack]_vars

\* the frame of a function nested in Outer is the top of the stack and holds
\* a queued child, while the frame of Outer under it holds a store
FramesWrittenAtTopWitness ==
  /\ Len(functionStack) = 2
  /\ icFrames[functionStack[2]].nestedJsxChildren # <<>>
  /\ icFrames[functionStack[1]].jsxAssignments # <<>>
  /\ icFrames[functionStack[2]].parent = functionStack[1]


\* the names of the identifiers of expression i that are not inside a nested
\* function
IcIdentifiersIn(i) ==
  {icTree[j].name : j \in {j \in DOMAIN icTree :
                             icTree[j].type = "Identifier" /\ IcWithin(i, j)}}

\* C33 as stated: the callback of a return statement changes at most the
\* returnsJsx mark of the innermost open function, changes nothing when the
\* argument is itself a function, and sets the mark only when the returned
\* expression holds a JSX node, or a name JSX was stored in, outside of every
\* function nested in the expression.
ReturnMarksInnermostOnly ==
  [][(icAgenda # <<>> /\ ~Head(icAgenda).exit
        /\ icTree[Head(icAgenda).node].type = "ReturnStatement") =>
       LET r == Head(icAgenda).node
           argument == IcChild(icTree, r, "argument")
           top == Last(functionStack)
       IN
       /\ functionStack' = functionStack
       /\ icReports' = icReports
       /\ functionStack # <<>> =>
            /\ icFrames[top].node = IcOwner(r)
            /\ \A i \in 1..Len(icFrames) : i # top => icFrames'[i] = icFrames[i]
            /\ \E mark \in BOOLEAN :
                 icFrames'[top] = [icFrames[top] EXCEPT !.returnsJsx = mark]
            /\ IC_isFunctionLike(icTree, argument) => icFrames' = icFrames
            /\ (icFrames'[top].returnsJsx /\ ~icFrames[top].returnsJsx) =>
                 \/ IcHasJsx(argument)
                 \/ IcIdentifiersIn(argument) \cap icFrames[top].jsxBindingNames # {}]_vars


\* a JSX element or fragment can be reached from node root through child
\* links without passing through a function other than the root
IcJsxReachable(root) ==
  \E j \in DOMAIN icTree : icTree[j].type \in JSX_NODE_TYPES /\ IcWithin(root, j)

\* C34: for every node of a linted file as root, the JSX search answers true
\* exactly when a JSX element or fragment is reachable from the root through
\* child links without passing through a function other than the root.  JSX
\* that lies only inside a nested function, or outside the subtree of the
\* root, does not count; the root is searched even when it is a function.
\* The search of jsx-component-pascal-case answers the same.
ContainsJsxIsReachability ==
  icAgenda = <<>> =>
    \A root \in DOMAIN icTree :
      /\ expressionContainsJsx(icTree, root) <=> IcJsxReachable(root)
      /\ JC_expressionContainsJsx(icTree, root) <=> IcJsxReachable(root)

\* the file has linted a function whose search as root answers true, with a
\* parent expression around it whose search answers false
ContainsJsxIsReachabilityWitness ==
  /\ icTree # <<>>
  /\ icAgenda = <<>>
  /\ \E f \in IcFunctions :
       /\ expressionContainsJsx(icTree, f)
       /\ icTree[f].parent # 0
       /\ icTree[icTree[f].parent].type = "ConditionalExpression"
       /\ ~expressionContainsJsx(icTree, icTree[f].parent)


\* the positions in the report log of the nested-function reports on node g
IcNestedReportsOn(g) == {k \in IcReportsOn(g) : IcIsNestedReport(icReports[k])}

\* C38: a record queued in a frame is reported only by the exit callback of
\* that frame's function, the immediate parent of the recorded function, and
\* with the parent's name in the message.  When the parent has exited without
\* returning a UI element its records have no report, whatever the functions
\* around the parent return, and no function has two nested-function reports.
QueuedReportedByParentOnly ==
  /\ [](\A g \in IcFunctions : Cardinality(IcNestedReportsOn(g)) <= 1)
  /\ [](\A i \in 1..Len(icFrames) :
          (IcExited(icFrames[i].node) /\ ~icFrames[i].returnsJsx) =>
            \A k \in 1..Len(icFrames[i].nestedJsxChildren) :
              IcNestedReportsOn(icFrames[i].nestedJsxChildren[k].node) = {})
  /\ [][\A r \in IcNewReports :
          IcIsNestedReport(r) =>
            /\ Head(icAgenda).exit
            /\ functionStack # <<>>
            /\ LET fnCtx == icFrames[Last(functionStack)] IN
               /\ fnCtx.node = Head(icAgenda).node
               /\ fnCtx.returnsJsx
               /\ fnCtx.node = IcOwner(r.node)
               /\ \E k \in 1..Len(fnCtx.nestedJsxChildren) :
                    /\ fnCtx.nestedJsxChildren[k].node = r.node
                    /\ r.message =
                         createNestedFunctionMessage(fnCtx.nestedJsxChildren[k].name,
                                                     fnCtx.name)]_vars

\* the file is linted: a function that does not return a UI element has kept
\* its queued record unreported inside a function that returns one, and that
\* outer function has reported a function nested directly in it
QueuedReportedByParentOnlyWitness ==
  /\ icTree # <<>>
  /\ icAgenda = <<>>
  /\ \E i \in 1..Len(icFrames) :
       /\ ~icFrames[i].returnsJsx
       /\ icFrames[i].nestedJsxChildren # <<>>
       /\ icFrames[i].parent # 0
       /\ icFrames[icFrames[i].parent].returnsJsx
       /\ icFrames[icFrames[i].parent].nestedJsxChildren # <<>>
       /\ \A k \in 1..Len(icFrames[i].nestedJsxChildren) :
            IcReportsOn(icFrames[i].nestedJsxChildren[k].node) = {}
       /\ \A k \in 1..Len(icFrames[icFrames[i].parent].nestedJsxChildren) :
            IcNestedReportsOn(icFrames[icFrames[i].parent].nestedJsxChildren[k].node) # {}


\* the store read off the AST at node n, if the node is one
IcStoresAt(n) == {s \in IcStores : s.at = n}

\* node n initializes or assigns a name from a bare identifier
IcIsCopy(n) ==
  \/ /\ icTree[n].type = "VariableDeclarator"
     /\ IcIdentifierName(icTree, n, "init") # ""
  \/ /\ icTree[n].type = "AssignmentExpression"
     /\ IcIdentifierName(icTree, n, "right") # ""

\* C39: a callback adds names to a frame's jsxBindingNames, or a record to
\* its jsxAssignments, only at a declarator whose initializer, an `=`
\* assignment whose right side, or a push call one of whose arguments holds a
\* JSX node outside of every nested function; the names added are the names
\* that store binds and the record is the one of that store.  A declarator
\* or assignment whose source is a bare identifier changes no frame, also
\* when JSX was stored in the identifier before.
KnownUIOnlyFromJsxSource ==
  [][\A i \in 1..Len(icFrames) :
       LET before == icFrames[i]
           after == icFrames'[i]
           n == Head(icAgenda).node
       IN
       /\ (after.jsxBindingNames # before.jsxBindingNames
             \/ after.jsxAssignments # before.jsxAssignments) =>
            /\ ~Head(icAgenda).exit
            /\ \E s \in IcStoresAt(n) :
                 /\ after.jsxBindingNames = before.jsxBindingNames \cup s.names
                 /\ Len(after.jsxAssignments) = Len(before.jsxAssignments) + 1
                 /\ SubSeq(after.jsxAssignments, 1, Len(before.jsxAssignments))
                      = before.jsxAssignments
                 /\ Last(after.jsxAssignments).node = s.node
                 /\ {Last(after.jsxAssignments).names[k] :
                       k \in 1..Len(Last(after.jsxAssignments).names)} = s.names
       /\ (~Head(icAgenda).exit /\ IcIsCopy(n)) => after = before]_vars

\* the file is linted: a name that was initialized or assigned from a name
\* JSX was stored in before is not in the frame's jsxBindingNames
KnownUIOnlyFromJsxSourceWitness ==
  /\ icTree # <<>>
  /\ icAgenda = <<>>
  /\ \E i \in 1..Len(icFrames), n \in DOMAIN icTree :
       LET source == IF icTree[n].type = "VariableDeclarator"
                     THEN IcIdentifierName(icTree, n, "init")
                     ELSE IcIdentifierName(icTree, n, "right")
           target == IF icTree[n].type = "VariableDeclarator"
                     THEN IcIdentifierName(icTree, n, "id")
                     ELSE IcIdentifierName(icTree, n, "left")
       IN
       /\ IcIsCopy(n)
       /\ IcOwner(n) = icFrames[i].node
       /\ source \in IcStoredBefore(icFrames[i].node, n)
       /\ source \in icFrames[i].jsxBindingNames
       /\ target \notin icFrames[i].jsxBindingNames
       /\ Len(icFrames[i].jsxAssignments) = Cardinality(IcStoresOf(icFrames[i].node))


RECURSIVE PfPatternRoot(_)
\* the pattern that identifier or sub-pattern i is a binding part of: the
\* node itself when it is a parameter or the id of a declarator, the root of
\* the pattern around it when it is a property value, element, defaulted
\* target or rest argument of one, 0 when it binds nothing
PfPatternRoot(i) ==
  LET parent == pfTree[i].parent
      up == IF parent = 0 THEN "" ELSE pfTree[parent].type
  IN
  IF parent = 0 THEN 0
  ELSE IF up = "VariableDeclarator" /\ pfTree[i].key = "id" THEN i
  ELSE IF up \in FUNCTION_NODE_TYPES /\ pfTree[i].key = "params" THEN i
  ELSE IF \/ up = "ArrayPattern" /\ pfTree[i].key = "elements"
          \/ up = "AssignmentPattern" /\ pfTree[i].key = "left"
          \/ up = "RestElement" /\ pfTree[i].key = "argument"
       THEN PfPatternRoot(parent)
  ELSE IF /\ up = "Property" /\ pfTree[i].key = "value"
          /\ pfTree[parent].parent # 0
          /\ pfTree[pfTree[parent].parent].type = "ObjectPattern"
       THEN PfPatternRoot(pfTree[parent].parent)
  ELSE 0

\* the names function f binds: by its parameters, and by the variable
\* declarations of its own body, those of the functions nested in it left out
PfDeclaredNames(f) ==
  {pfTree[i].name : i \in {i \in DOMAIN pfTree :
     /\ pfTree[i].type = "Identifier"
     /\ PfPatternRoot(i) # 0
     /\ \/ pfTree[PfPatternRoot(i)].parent = f
        \/ /\ pfTree[PfPatternRoot(i)].key = "id"
           /\ getEnclosingFunction(pfTree, PfPatternRoot(i)) = f}}

\* the function values the callbacks made so far have classified
PfClassified ==
  {f \in DOMAIN pfTree : /\ pfTree[f].type \in FUNCTION_NODE_TYPES
                         /\ pfTree[f].key = "init"
                         /\ pfTree[f].parent \in PfVisited}

\* C35 as stated: the local names computed for a function are exactly the
\* names bound by its parameters and by the variable declarations in its own
\* body; a name that is only referenced, or declared around the function, is
\* not among them.
LocalNamesAreOwnBindings ==
  \A f \in PfClassified : collectLocalNames(pfTree, f) = PfDeclaredNames(f)


\* C36 as stated: a top-level-mutation diagnostic names a tracked top-level
\* const only when the root identifier of the mutated member refers to that
\* binding; a mutation rooted at a parameter or local variable that merely
\* has the name of a tracked const is not attributed to the const.
MutationAttributedToOwnBinding ==
  MtAtMutation /\ MtAsFresh =>
    \A k \in 1..Len(mtReported) :
      mtReported[k].messageId = "topLevelMutation" =>
        /\ MtRootedAt(Last(mtPath).target, mtReported[k].name)
        /\ mtReported[k].name \in MtTrackedConsts
        /\ MtResolved(mtReported[k].name) = "tracked"


\* C37: no callback changes a frame that is not the top of the scope stack.
\* Entering a function or standalone block puts a frame with depth 0 and no
\* increments on top of the frames there were, and exiting one takes the top
\* frame off and leaves the others as they were, so the frame of the
\* enclosing scope is the same after a nested scope as before it, whatever
\* conditionals the nested scope held.
EnclosingFrameUntouched ==
  [][/\ \A k \in 1..(Len(scopeStack) - 1) :
          k <= Len(scopeStack') => scopeStack'[k] = scopeStack[k]
     /\ Len(scopeStack') > Len(scopeStack) =>
          scopeStack' = Append(scopeStack, [depth |-> 0, increments |-> <<>>])
     /\ Len(scopeStack') < Len(scopeStack) => scopeStack' = Front(scopeStack)
     /\ Len(scopeStack') = Len(scopeStack) /\ scopeStack' # scopeStack =>
          \/ NcConditionalExits
          \/ /\ Len(ncPath') = Len(ncPath) + 1
             /\ NcIsConditional(Len(ncPath))']_vars

\* a conditional is open in a function or block nested in a scope that has a
\* conditional of its own open: each of the two frames counts one
EnclosingFrameUntouchedWitness ==
  /\ Len(scopeStack) >= 3
  /\ scopeStack[Len(scopeStack) - 1].depth = 1
  /\ Last(scopeStack).depth = 1
  /\ NcIsConditional(Len(ncPath))
  /\ \E i \in 1..Len(ncPath) : NC_isFunctionLike(ncPath, i) /\ NcScopeStart(Len(ncPath)) = i

====
